---- MODULE Spec2Model ----
(***************************************************************************)
(* Token / session lifecycle of app/services: registration, login, refresh *)
(* (with and without rotation), logout (blacklisting), current-user        *)
(* resolution and the role gate, over the process-wide maps                *)
(* blacklisted_tokens, refresh_tokens and DB_USERS.                        *)
(*                                                                         *)
(* Time is a clock counted in ticks, TicksPerSecond ticks to the second,   *)
(* so that the whole-second truncation of the JWT exp / iat claims is a    *)
(* real conversion.  Random values (uuid4, token_urlsafe) are fresh.       *)
(***************************************************************************)
EXTENDS Integers, Sequences, FiniteSets, TLC

VARIABLES
    now,                \* the wall clock, datetime.now(timezone.utc), in ticks
    ticks,              \* how many times the clock has advanced
    ROTATE_REFRESH,     \* settings.ROTATE_REFRESH, fixed at process start
    DB_USERS,           \* str(uid) -> UserFullModel
    refresh_tokens,     \* refresh token string -> RefreshTokenInfo
    blacklisted_tokens, \* access token string -> expiry
    issued,             \* access tokens handed to clients -> uid they were created for
    held,               \* refresh token strings handed to clients
    pairs,              \* the token pairs returned by successful logins
    revoked,            \* access tokens blacklist_token has recorded
    rotated,            \* refresh tokens consumed by a successful rotating refresh
    last,               \* the last operation and its outcome
    OBJECTS,            \* app.db.OBJECTS: object id -> DBObjectModel
    oauth_users,        \* database.users.oauth_users: username -> OAuthUser
    github_id_to_username,  \* database.users.github_id_to_username
    callers,            \* the requests in flight: each caller's position and locals
    db                  \* app.database.db, the LocalDatabase: table -> key -> record

\* the stores beside the token service, and the requests in flight
aside == <<OBJECTS, oauth_users, github_id_to_username, callers, db>>

vars == <<now, ticks, ROTATE_REFRESH, DB_USERS, refresh_tokens, blacklisted_tokens,
          issued, held, pairs, revoked, rotated, last, aside>>

-----------------------------------------------------------------------------
(* Bounds of the model *)

MaxEvents == 3          \* access tokens handed out, clock advances, overlapping requests
TicksPerSecond == 2     \* clock resolution
MaxObjects == 3         \* objects stored

(* Settings *)

ACCESS_EXPIRE_MINUTES == 15
REFRESH_EXPIRE_REMEMBER_DAYS == 30
REFRESH_EXPIRE_DEFAULT_DAYS == 7

JWT_SECRET_KEY == "JWT_SECRET_KEY"

(* HTTP statuses *)

HTTP_200_OK == 200
HTTP_400_BAD_REQUEST == 400
HTTP_401_UNAUTHORIZED == 401
HTTP_404_NOT_FOUND == 404
HTTP_405_METHOD_NOT_ALLOWED == 405
HTTP_409_CONFLICT == 409
HTTP_500_INTERNAL_SERVER_ERROR == 500

-----------------------------------------------------------------------------
(* Values and conversions *)

None == <<>>

\* uuid.uuid4(): the n-th fresh UUID
UUIDv(n) == <<"UUID", n>>
\* str(uuid.uuid4()): a fresh refresh token string.  The string is opaque to the
\* code; the model names it after the record first stored under it and a serial
\* number, so that histories that differ only in the order of issue coincide.
RT(uid, expire, n) == <<"refresh", uid[2], expire, n>>
\* str(uid)
Str(uid) == <<"str", uid[2]>>
\* UUID4(user_uid): parse the string form back
UUID4(s) == <<"UUID", s[2]>>

Minutes(n) == n * 60 * TicksPerSecond
Days(n) == n * 86400 * TicksPerSecond

\* int(dt.timestamp()): whole seconds, truncated
IntTimestamp(t) == t \div TicksPerSecond
\* datetime.fromtimestamp(ts, tz=timezone.utc)
FromTimestamp(s) == s * TicksPerSecond

\* sha256_crypt.hash / sha256_crypt.verify
Hash(password) == <<"sha256_crypt", password>>
Verify(password, password_hash) == password_hash = Hash(password)

Range(seq) == {seq[i] : i \in DOMAIN seq}

Restrict(f, S) == [k \in S |-> f[k]]

-----------------------------------------------------------------------------
(* Token codec *)

\* jwt.encode(payload, key, algorithm="HS256")
jwt_encode(payload, key) == [payload |-> payload, mac |-> key]

\* a string that is no three-part token
Garbage == [raw |-> "invalid_token"]
\* a token whose signature was not made with the process key
Forge(token) == [payload |-> token.payload, mac |-> "forged"]

\* jwt.decode(token, key, algorithms=["HS256"]) at clock t
jwt_decode(token, key, t) ==
    IF "mac" \notin DOMAIN token THEN [error |-> "DecodeError"]
    ELSE IF token.mac # key THEN [error |-> "InvalidSignatureError"]
    ELSE IF FromTimestamp(token.payload.exp) <= t THEN [error |-> "ExpiredSignatureError"]
    ELSE [error |-> "none", payload |-> token.payload]

\* variant: the expiry claim is the time of issue, the lifetime is not added
create_jwt_token_NoLifetime(uid, t, jti) ==
    jwt_encode([sub |-> Str(uid),
                exp |-> IntTimestamp(t),
                iat |-> IntTimestamp(t),
                jti |-> jti,
                type |-> "access"], JWT_SECRET_KEY)

create_jwt_token(uid, t, jti) ==
    jwt_encode([sub |-> Str(uid),
                exp |-> IntTimestamp(t + Minutes(ACCESS_EXPIRE_MINUTES)),
                iat |-> IntTimestamp(t),
                jti |-> jti,
                type |-> "access"], JWT_SECRET_KEY)

\* variant: only the expiry error is caught, any other decoding error escapes
decode_jwt_token_CatchesExpiryOnly(blacklist, token, t) ==
    IF token \in DOMAIN blacklist
    THEN [status |-> HTTP_401_UNAUTHORIZED, detail |-> "Token has been revoked"]
    ELSE LET r == jwt_decode(token, JWT_SECRET_KEY, t) IN
         CASE r.error = "none" -> [status |-> HTTP_200_OK, detail |-> "", payload |-> r.payload]
           [] r.error = "ExpiredSignatureError" ->
                [status |-> HTTP_401_UNAUTHORIZED, detail |-> "Token has expired"]
           [] OTHER -> [status |-> HTTP_500_INTERNAL_SERVER_ERROR, detail |-> r.error]

decode_jwt_token(blacklist, token, t) ==
    IF token \in DOMAIN blacklist
    THEN [status |-> HTTP_401_UNAUTHORIZED, detail |-> "Token has been revoked"]
    ELSE LET r == jwt_decode(token, JWT_SECRET_KEY, t) IN
         CASE r.error = "none" -> [status |-> HTTP_200_OK, detail |-> "", payload |-> r.payload]
           [] r.error = "ExpiredSignatureError" ->
                [status |-> HTTP_401_UNAUTHORIZED, detail |-> "Token has expired"]
           [] OTHER -> [status |-> HTTP_401_UNAUTHORIZED, detail |-> "Invalid token"]

get_current_user(blacklist, token, t) ==
    LET r == decode_jwt_token(blacklist, token, t) IN
    IF r.status # HTTP_200_OK THEN [status |-> r.status, detail |-> r.detail, uid |-> None]
    ELSE IF "sub" \notin DOMAIN r.payload
    THEN [status |-> HTTP_401_UNAUTHORIZED, detail |-> "Invalid token payload", uid |-> None]
    ELSE [status |-> HTTP_200_OK, detail |-> "", uid |-> UUID4(r.payload.sub)]

-----------------------------------------------------------------------------
(* Revocation store *)

\* variant: the comparison is the wrong way round, the live entries are purged
cleanup_expired_blacklisted_tokens_PurgesLive(blacklist, t) ==
    Restrict(blacklist, {k \in DOMAIN blacklist : blacklist[k] < t})

cleanup_expired_blacklisted_tokens(blacklist, t) ==
    Restrict(blacklist, {k \in DOMAIN blacklist : ~(blacklist[k] < t)})

\* variant: only the records of the given subject are removed, expiry is not looked at
cleanup_expired_refresh_tokens_SubjectOnly(store, t, sub) ==
    Restrict(store, {k \in DOMAIN store : ~(sub # None /\ Str(store[k].sub) = sub)})

cleanup_expired_refresh_tokens(store, t, sub) ==
    Restrict(store, {k \in DOMAIN store :
                        ~(store[k].exp < t \/ (sub # None /\ Str(store[k].sub) = sub))})

\* variant: the two lifetimes are taken the wrong way round
create_refresh_token_SwapsLifetimes(store, uid, is_remember_me, t, new_rt, t2) ==
    LET expire == IF is_remember_me THEN t + Days(REFRESH_EXPIRE_DEFAULT_DAYS)
                                    ELSE t + Days(REFRESH_EXPIRE_REMEMBER_DAYS)
        info == [sub |-> uid, exp |-> expire, is_remember_me |-> is_remember_me]
        stored == [k \in DOMAIN store \cup {new_rt} |->
                      IF k = new_rt THEN info ELSE store[k]]
    IN cleanup_expired_refresh_tokens(stored, t2, None)

\* the store after create_refresh_token stored new_rt at clock t and cleaned up at t2
create_refresh_token(store, uid, is_remember_me, t, new_rt, t2) ==
    LET expire == IF is_remember_me THEN t + Days(REFRESH_EXPIRE_REMEMBER_DAYS)
                                    ELSE t + Days(REFRESH_EXPIRE_DEFAULT_DAYS)
        info == [sub |-> uid, exp |-> expire, is_remember_me |-> is_remember_me]
        stored == [k \in DOMAIN store \cup {new_rt} |->
                      IF k = new_rt THEN info ELSE store[k]]
    IN cleanup_expired_refresh_tokens(stored, t2, None)

\* variant: a successful validation consumes the token
validate_refresh_token_Consumes(store, refresh_token, t) ==
    IF refresh_token \notin DOMAIN store
    THEN [status |-> HTTP_401_UNAUTHORIZED, detail |-> "Invalid refresh token",
          store |-> store]
    ELSE IF store[refresh_token].exp < t
    THEN [status |-> HTTP_401_UNAUTHORIZED, detail |-> "Refresh token has expired",
          store |-> Restrict(store, DOMAIN store \ {refresh_token})]
    ELSE [status |-> HTTP_200_OK, detail |-> "",
          store |-> Restrict(store, DOMAIN store \ {refresh_token}),
          info |-> store[refresh_token]]

\* variant: an expired token is rejected but stays in the store
validate_refresh_token_KeepsExpired(store, refresh_token, t) ==
    IF refresh_token \notin DOMAIN store
    THEN [status |-> HTTP_401_UNAUTHORIZED, detail |-> "Invalid refresh token",
          store |-> store]
    ELSE IF store[refresh_token].exp < t
    THEN [status |-> HTTP_401_UNAUTHORIZED, detail |-> "Refresh token has expired",
          store |-> store]
    ELSE [status |-> HTTP_200_OK, detail |-> "", store |-> store,
          info |-> store[refresh_token]]

\* variant: every validation first purges the expired records of the store
validate_refresh_token_CleansUp(store, refresh_token, t) ==
    LET cleaned == Restrict(store, {k \in DOMAIN store :
                                       k = refresh_token \/ ~(store[k].exp < t)})
    IN IF refresh_token \notin DOMAIN store
       THEN [status |-> HTTP_401_UNAUTHORIZED, detail |-> "Invalid refresh token",
             store |-> cleaned]
       ELSE IF store[refresh_token].exp < t
       THEN [status |-> HTTP_401_UNAUTHORIZED, detail |-> "Refresh token has expired",
             store |-> Restrict(cleaned, DOMAIN cleaned \ {refresh_token})]
       ELSE [status |-> HTTP_200_OK, detail |-> "", store |-> cleaned,
             info |-> store[refresh_token]]

validate_refresh_token(store, refresh_token, t) ==
    IF refresh_token \notin DOMAIN store
    THEN [status |-> HTTP_401_UNAUTHORIZED, detail |-> "Invalid refresh token",
          store |-> store]
    ELSE IF store[refresh_token].exp < t
    THEN [status |-> HTTP_401_UNAUTHORIZED, detail |-> "Refresh token has expired",
          store |-> Restrict(store, DOMAIN store \ {refresh_token})]
    ELSE [status |-> HTTP_200_OK, detail |-> "", store |-> store,
          info |-> store[refresh_token]]

\* variant: rotation stores the new token and forgets to delete the old one
generate_refresh_token_KeepsOld(store, refresh_token, rotate, t, d, jti, new_rt) ==
    LET v == validate_refresh_token(store, refresh_token, t) IN
    IF v.status # HTTP_200_OK
    THEN [status |-> v.status, detail |-> v.detail, store |-> v.store,
          access_token |-> None, refresh_token |-> None]
    ELSE [status |-> HTTP_200_OK, detail |-> "Token refreshed successfully",
          store |-> IF rotate
                    THEN create_refresh_token(v.store, v.info.sub, v.info.is_remember_me,
                                              t, new_rt, t + d)
                    ELSE v.store,
          access_token |-> create_jwt_token(v.info.sub, t, jti),
          refresh_token |-> IF rotate THEN new_rt ELSE refresh_token]

\* variant: the new access token is made for the subject of some record of the
\* store, not for the subject of the record of the presented token
generate_refresh_token_AnySubject(store, refresh_token, rotate, t, d, jti, new_rt) ==
    LET v == validate_refresh_token(store, refresh_token, t) IN
    IF v.status # HTTP_200_OK
    THEN [status |-> v.status, detail |-> v.detail, store |-> v.store,
          access_token |-> None, refresh_token |-> None]
    ELSE LET any == v.store[CHOOSE k \in DOMAIN v.store : TRUE]
             new_access_token == create_jwt_token(any.sub, t, jti) IN
         IF rotate
         THEN LET created == create_refresh_token(v.store, v.info.sub,
                                                  v.info.is_remember_me, t, new_rt, t + d)
              IN IF refresh_token \in DOMAIN created
                 THEN [status |-> HTTP_200_OK, detail |-> "Token refreshed successfully",
                       store |-> Restrict(created, DOMAIN created \ {refresh_token}),
                       access_token |-> new_access_token, refresh_token |-> new_rt]
                 ELSE [status |-> HTTP_500_INTERNAL_SERVER_ERROR, detail |-> "KeyError",
                       store |-> created,
                       access_token |-> None, refresh_token |-> None]
         ELSE [status |-> HTTP_200_OK, detail |-> "Token refreshed successfully",
               store |-> v.store,
               access_token |-> new_access_token, refresh_token |-> refresh_token]

\* variant: a rotation drops every refresh token of the subject, not only the one
\* presented
generate_refresh_token_RevokesFamily(store, refresh_token, rotate, t, d, jti, new_rt) ==
    LET v == validate_refresh_token(store, refresh_token, t) IN
    IF v.status # HTTP_200_OK
    THEN [status |-> v.status, detail |-> v.detail, store |-> v.store,
          access_token |-> None, refresh_token |-> None]
    ELSE LET new_access_token == create_jwt_token(v.info.sub, t, jti) IN
         IF rotate
         THEN LET family == {k \in DOMAIN v.store : v.store[k].sub = v.info.sub}
                  created == create_refresh_token(
                                 Restrict(v.store, DOMAIN v.store \ family), v.info.sub,
                                 v.info.is_remember_me, t, new_rt, t + d)
              IN [status |-> HTTP_200_OK, detail |-> "Token refreshed successfully",
                  store |-> created,
                  access_token |-> new_access_token, refresh_token |-> new_rt]
         ELSE [status |-> HTTP_200_OK, detail |-> "Token refreshed successfully",
               store |-> v.store,
               access_token |-> new_access_token, refresh_token |-> refresh_token]

\* variant: the rotated token is created with the default flag, not the flag of the
\* consumed token
generate_refresh_token_DefaultLifetime(store, refresh_token, rotate, t, d, jti, new_rt) ==
    LET v == validate_refresh_token(store, refresh_token, t) IN
    IF v.status # HTTP_200_OK
    THEN [status |-> v.status, detail |-> v.detail, store |-> v.store,
          access_token |-> None, refresh_token |-> None]
    ELSE LET new_access_token == create_jwt_token(v.info.sub, t, jti) IN
         IF rotate
         THEN LET created == create_refresh_token(v.store, v.info.sub,
                                                  FALSE, t, new_rt, t + d)
              IN IF refresh_token \in DOMAIN created
                 THEN [status |-> HTTP_200_OK, detail |-> "Token refreshed successfully",
                       store |-> Restrict(created, DOMAIN created \ {refresh_token}),
                       access_token |-> new_access_token, refresh_token |-> new_rt]
                 ELSE \* del refresh_tokens[refresh_token] raises KeyError
                      [status |-> HTTP_500_INTERNAL_SERVER_ERROR, detail |-> "KeyError",
                       store |-> created,
                       access_token |-> None, refresh_token |-> None]
         ELSE [status |-> HTTP_200_OK, detail |-> "Token refreshed successfully",
               store |-> v.store,
               access_token |-> new_access_token, refresh_token |-> refresh_token]

\* generate_refresh_token at clock t; the cleanup inside create_refresh_token reads
\* the clock at t + d.  jti and new_rt are the fresh random values it draws.
generate_refresh_token(store, refresh_token, rotate, t, d, jti, new_rt) ==
    LET v == validate_refresh_token(store, refresh_token, t) IN
    IF v.status # HTTP_200_OK
    THEN [status |-> v.status, detail |-> v.detail, store |-> v.store,
          access_token |-> None, refresh_token |-> None]
    ELSE LET new_access_token == create_jwt_token(v.info.sub, t, jti) IN
         IF rotate
         THEN LET created == create_refresh_token(v.store, v.info.sub,
                                                  v.info.is_remember_me, t, new_rt, t + d)
              IN IF refresh_token \in DOMAIN created
                 THEN [status |-> HTTP_200_OK, detail |-> "Token refreshed successfully",
                       store |-> Restrict(created, DOMAIN created \ {refresh_token}),
                       access_token |-> new_access_token, refresh_token |-> new_rt]
                 ELSE \* del refresh_tokens[refresh_token] raises KeyError
                      [status |-> HTTP_500_INTERNAL_SERVER_ERROR, detail |-> "KeyError",
                       store |-> created,
                       access_token |-> None, refresh_token |-> None]
         ELSE [status |-> HTTP_200_OK, detail |-> "Token refreshed successfully",
               store |-> v.store,
               access_token |-> new_access_token, refresh_token |-> refresh_token]

\* variant: the entry is deleted without the membership test
revoke_refresh_token_Unguarded(store, refresh_token) ==
    IF refresh_token \in DOMAIN store
    THEN [status |-> HTTP_200_OK,
          store |-> Restrict(store, DOMAIN store \ {refresh_token})]
    ELSE [status |-> HTTP_500_INTERNAL_SERVER_ERROR, store |-> store]

\* revoke_refresh_token: how the call ends (200: it returns) and the store it leaves
revoke_refresh_token(store, refresh_token) ==
    IF refresh_token \in DOMAIN store
    THEN [status |-> HTTP_200_OK,
          store |-> Restrict(store, DOMAIN store \ {refresh_token})]
    ELSE [status |-> HTTP_200_OK, store |-> store]

\* variant: only the expiry error is swallowed, any other decoding error escapes
blacklist_token_RaisesOnUndecodable(blacklist, store, token, t, d) ==
    LET r == jwt_decode(token, JWT_SECRET_KEY, t) IN
    IF r.error = "ExpiredSignatureError"
    THEN [status |-> HTTP_200_OK, blacklist |-> blacklist, store |-> store,
          recorded |-> FALSE]
    ELSE IF r.error # "none"
    THEN [status |-> HTTP_500_INTERNAL_SERVER_ERROR, blacklist |-> blacklist,
          store |-> store, recorded |-> FALSE]
    ELSE LET added == [k \in DOMAIN blacklist \cup {token} |->
                          IF k = token THEN FromTimestamp(r.payload.exp)
                                       ELSE blacklist[k]]
         IN [status |-> HTTP_200_OK,
             blacklist |-> cleanup_expired_blacklisted_tokens(added, t + d),
             store |-> cleanup_expired_refresh_tokens(store, t + d, r.payload.sub),
             recorded |-> TRUE]

\* variant: the blacklist is not purged after the insertion
blacklist_token_NoPurge(blacklist, store, token, t, d) ==
    LET r == jwt_decode(token, JWT_SECRET_KEY, t) IN
    IF r.error # "none"
    THEN [status |-> HTTP_200_OK, blacklist |-> blacklist, store |-> store,
          recorded |-> FALSE]
    ELSE LET exp_timestamp == r.payload.exp
             sub == r.payload.sub
             cleaned == cleanup_expired_refresh_tokens(store, t + d, sub)
         IN IF exp_timestamp # 0
            THEN [status |-> HTTP_200_OK,
                  blacklist |-> [k \in DOMAIN blacklist \cup {token} |->
                                    IF k = token THEN FromTimestamp(exp_timestamp)
                                                 ELSE blacklist[k]],
                  store |-> cleaned, recorded |-> TRUE]
            ELSE [status |-> HTTP_200_OK, blacklist |-> blacklist, store |-> cleaned,
                  recorded |-> FALSE]

\* variant: the token is decoded without verifying its signature
blacklist_token_RecordsUnverified(blacklist, store, token, t, d) ==
    IF "mac" \notin DOMAIN token \/ FromTimestamp(token.payload.exp) <= t
    THEN [status |-> HTTP_200_OK, blacklist |-> blacklist, store |-> store,
          recorded |-> FALSE]
    ELSE LET exp_timestamp == token.payload.exp
             sub == token.payload.sub
             cleaned == cleanup_expired_refresh_tokens(store, t + d, sub)
         IN IF exp_timestamp # 0
            THEN LET added == [k \in DOMAIN blacklist \cup {token} |->
                                  IF k = token THEN FromTimestamp(exp_timestamp)
                                               ELSE blacklist[k]]
                 IN [status |-> HTTP_200_OK,
                     blacklist |-> cleanup_expired_blacklisted_tokens(added, t + d),
                     store |-> cleaned, recorded |-> TRUE]
            ELSE [status |-> HTTP_200_OK, blacklist |-> blacklist, store |-> cleaned,
                  recorded |-> FALSE]

\* variant: the refresh-token cleanup is called without the subject
blacklist_token_KeepsRefreshTokens(blacklist, store, token, t, d) ==
    LET r == jwt_decode(token, JWT_SECRET_KEY, t) IN
    IF r.error # "none"
    THEN [status |-> HTTP_200_OK, blacklist |-> blacklist, store |-> store,
          recorded |-> FALSE]
    ELSE LET exp_timestamp == r.payload.exp
             cleaned == cleanup_expired_refresh_tokens(store, t + d, None)
         IN IF exp_timestamp # 0
            THEN LET added == [k \in DOMAIN blacklist \cup {token} |->
                                  IF k = token THEN FromTimestamp(exp_timestamp)
                                               ELSE blacklist[k]]
                 IN [status |-> HTTP_200_OK,
                     blacklist |-> cleanup_expired_blacklisted_tokens(added, t + d),
                     store |-> cleaned, recorded |-> TRUE]
            ELSE [status |-> HTTP_200_OK, blacklist |-> blacklist, store |-> cleaned,
                  recorded |-> FALSE]

\* variant: a token that fails verification is still read for its subject, whose
\* refresh tokens are removed
blacklist_token_ForgetsOnInvalid(blacklist, store, token, t, d) ==
    LET r == jwt_decode(token, JWT_SECRET_KEY, t) IN
    IF r.error = "DecodeError"
    THEN [status |-> HTTP_200_OK, blacklist |-> blacklist, store |-> store,
          recorded |-> FALSE]
    ELSE IF r.error # "none"
    THEN [status |-> HTTP_200_OK, blacklist |-> blacklist,
          store |-> cleanup_expired_refresh_tokens(store, t + d, token.payload.sub),
          recorded |-> FALSE]
    ELSE LET exp_timestamp == r.payload.exp
             sub == r.payload.sub
             cleaned == cleanup_expired_refresh_tokens(store, t + d, sub)
         IN IF exp_timestamp # 0
            THEN LET added == [k \in DOMAIN blacklist \cup {token} |->
                                  IF k = token THEN FromTimestamp(exp_timestamp)
                                               ELSE blacklist[k]]
                 IN [status |-> HTTP_200_OK,
                     blacklist |-> cleanup_expired_blacklisted_tokens(added, t + d),
                     store |-> cleaned, recorded |-> TRUE]
            ELSE [status |-> HTTP_200_OK, blacklist |-> blacklist, store |-> cleaned,
                  recorded |-> FALSE]

\* blacklist_token: the token is verified at clock t, the cleanups read the clock at
\* t + d.  InvalidTokenError is swallowed, so the call returns normally on every path.
blacklist_token(blacklist, store, token, t, d) ==
    LET r == jwt_decode(token, JWT_SECRET_KEY, t) IN
    IF r.error # "none"
    THEN [status |-> HTTP_200_OK, blacklist |-> blacklist, store |-> store,
          recorded |-> FALSE]
    ELSE LET exp_timestamp == r.payload.exp
             sub == r.payload.sub
             cleaned == cleanup_expired_refresh_tokens(store, t + d, sub)
         IN IF exp_timestamp # 0
            THEN LET added == [k \in DOMAIN blacklist \cup {token} |->
                                  IF k = token THEN FromTimestamp(exp_timestamp)
                                               ELSE blacklist[k]]
                 IN [status |-> HTTP_200_OK,
                     blacklist |-> cleanup_expired_blacklisted_tokens(added, t + d),
                     store |-> cleaned, recorded |-> TRUE]
            ELSE [status |-> HTTP_200_OK, blacklist |-> blacklist, store |-> cleaned,
                  recorded |-> FALSE]

-----------------------------------------------------------------------------
(* Principal store and credential verifier *)

_get_user_by_username(users, username) ==
    IF \E k \in DOMAIN users : users[k].username = username
    THEN users[CHOOSE k \in DOMAIN users : users[k].username = username]
    ELSE None

\* variant: the password is not verified
validate_credentials_NoVerify(users, username, password) ==
    LET user == _get_user_by_username(users, username) IN
    IF user # None THEN user.uid ELSE None

validate_credentials(users, username, password) ==
    LET user == _get_user_by_username(users, username) IN
    IF user # None /\ Verify(password, user.password_hash) THEN user.uid ELSE None

get_user(users, user_uid) ==
    IF Str(user_uid) \notin DOMAIN users
    THEN [status |-> HTTP_404_NOT_FOUND, detail |-> "User not exists"]
    ELSE [status |-> HTTP_200_OK, detail |-> "",
          user |-> [uid |-> users[Str(user_uid)].uid,
                    username |-> users[Str(user_uid)].username,
                    roles |-> users[Str(user_uid)].roles]]

\* variant: the user is stored without looking the username up first
create_user_NoLookup(users, payload, uid) ==
    [status |-> HTTP_200_OK, detail |-> "", uid |-> uid,
     users |-> [k \in DOMAIN users \cup {Str(uid)} |->
                   IF k = Str(uid)
                   THEN [uid |-> uid, username |-> payload.username,
                         roles |-> payload.roles,
                         password_hash |-> Hash(payload.password)]
                   ELSE users[k]]]

create_user(users, payload, uid) ==
    IF _get_user_by_username(users, payload.username) # None
    THEN [status |-> HTTP_409_CONFLICT, detail |-> "User already exists", users |-> users]
    ELSE [status |-> HTTP_200_OK, detail |-> "", uid |-> uid,
          users |-> [k \in DOMAIN users \cup {Str(uid)} |->
                        IF k = Str(uid)
                        THEN [uid |-> uid, username |-> payload.username,
                              roles |-> payload.roles,
                              password_hash |-> Hash(payload.password)]
                        ELSE users[k]]]

\* business_logic.authorize at clock t; jti and new_rt are the fresh random values
\* create_token_pair draws
authorize(users, store, login_request, t, jti, new_rt) ==
    LET user_uid == validate_credentials(users, login_request.username,
                                         login_request.password)
    IN IF user_uid = None
       THEN [status |-> HTTP_401_UNAUTHORIZED, detail |-> "Invalid username or password",
             store |-> store, access_token |-> None, refresh_token |-> None]
       ELSE [status |-> HTTP_200_OK, detail |-> "Login successful",
             store |-> create_refresh_token(store, user_uid,
                                            login_request.is_remember_me, t, new_rt, t),
             access_token |-> create_jwt_token(user_uid, t, jti),
             refresh_token |-> new_rt]

-----------------------------------------------------------------------------
(* Authorization gate *)

\* variant: every required role must be held
roles_allowed_AllOf(user_roles, access_roles) == access_roles \subseteq Range(user_roles)

\* the test of the roles decorator: set(user.roles) & access_roles
roles_allowed(user_roles, access_roles) == Range(user_roles) \cap access_roles # {}

\* variant: a principal without the role is answered like an unknown caller
roles_DeniesAsUnauthorized(users, blacklist, access_roles, token, t) ==
    LET who == get_current_user(blacklist, token, t) IN
    IF who.status # HTTP_200_OK
    THEN [status |-> who.status, detail |-> who.detail, invoked |-> FALSE, uid |-> None]
    ELSE LET found == get_user(users, who.uid) IN
         IF found.status # HTTP_200_OK
         THEN [status |-> found.status, detail |-> found.detail, invoked |-> FALSE,
               uid |-> who.uid]
         ELSE IF roles_allowed(found.user.roles, access_roles)
         THEN [status |-> HTTP_200_OK, detail |-> "", invoked |-> TRUE, uid |-> who.uid]
         ELSE [status |-> HTTP_401_UNAUTHORIZED, detail |-> "Method is not allowed",
               invoked |-> FALSE, uid |-> who.uid]

\* the wrapper made by roles(access_roles), called with a bearer token at clock t
roles(users, blacklist, access_roles, token, t) ==
    LET who == get_current_user(blacklist, token, t) IN
    IF who.status # HTTP_200_OK
    THEN [status |-> who.status, detail |-> who.detail, invoked |-> FALSE, uid |-> None]
    ELSE LET found == get_user(users, who.uid) IN
         IF found.status # HTTP_200_OK
         THEN [status |-> found.status, detail |-> found.detail, invoked |-> FALSE,
               uid |-> who.uid]
         ELSE IF roles_allowed(found.user.roles, access_roles)
         THEN [status |-> HTTP_200_OK, detail |-> "", invoked |-> TRUE, uid |-> who.uid]
         ELSE [status |-> HTTP_405_METHOD_NOT_ALLOWED, detail |-> "Method is not allowed",
               invoked |-> FALSE, uid |-> who.uid]

-----------------------------------------------------------------------------
(* Inputs *)

RegistrationRequests ==
    { [username |-> "alice", password |-> "s3cret", roles |-> <<"admin", "user">>],
      [username |-> "bob", password |-> "hunter2", roles |-> <<"user">>] }

LoginRequests ==
    { [username |-> "alice", password |-> "s3cret", is_remember_me |-> TRUE],
      [username |-> "bob", password |-> "hunter2", is_remember_me |-> FALSE],
      [username |-> "alice", password |-> "hunter2", is_remember_me |-> FALSE],
      [username |-> "mallory", password |-> "s3cret", is_remember_me |-> FALSE] }
RequiredRoles == { {"admin"}, {"admin", "auditor"} }

\* the bearer strings a client can present: the tokens handed out, one of them with
\* a forged signature, and a string that is no token
Forged == IF DOMAIN issued = {} THEN {} ELSE {Forge(CHOOSE tk \in DOMAIN issued : TRUE)}
AccessTokens == DOMAIN issued \cup Forged \cup {Garbage}
\* the refresh strings a client can present
RefreshTokens == held \cup {<<"invalid_refresh_token">>}

\* fresh random values
\* secrets.token_urlsafe(16): told apart from the jti of every token with the same
\* subject and timestamps
FreshJti(uid, t) ==
    LET same == {tk \in DOMAIN issued : /\ tk.payload.sub = Str(uid)
                                        /\ tk.payload.iat = IntTimestamp(t)}
    IN Cardinality(same) + 1
\* uuid.uuid4() in generate_user_uid
FreshUid(username) == UUIDv(IF username = "alice" THEN 1 ELSE 2)
\* str(uuid.uuid4()) in create_refresh_token
RefreshTTL(is_remember_me) ==
    IF is_remember_me THEN Days(REFRESH_EXPIRE_REMEMBER_DAYS)
                      ELSE Days(REFRESH_EXPIRE_DEFAULT_DAYS)
FreshRT(uid, is_remember_me, t) ==
    LET expire == t + RefreshTTL(is_remember_me)
        used == {k \in held \cup DOMAIN refresh_tokens :
                    k[1] = "refresh" /\ k[2] = uid[2] /\ k[3] = expire}
    IN RT(uid, expire, Cardinality(used) + 1)

\* what is left of the bound: each token handed out, each clock advance and each
\* request in flight uses one
Budget == MaxEvents - Cardinality(DOMAIN issued) - ticks
                    - Cardinality({c \in DOMAIN callers : callers[c].pc # "idle"})

\* how far the clock may advance inside one handler
Delays == IF Budget > 0 THEN {0, 1} ELSE {0}

\* the instants the clock advances to: each recorded expiry and the tick after it
Expiries ==
    {refresh_tokens[k].exp : k \in DOMAIN refresh_tokens}
    \cup {blacklisted_tokens[k] : k \in DOMAIN blacklisted_tokens}
    \cup {FromTimestamp(tk.payload.exp) : tk \in DOMAIN issued}
Instants == {t \in Expiries \cup {e + 1 : e \in Expiries} : t > now}

-----------------------------------------------------------------------------
(* Requests in flight *)

\* the callers whose requests may overlap
Callers == {1, 2}
\* a caller with no request in flight
Idle == [pc |-> "idle"]
\* a caller entering generate_refresh_token(refresh_token)
Entered(refresh_token) ==
    [pc |-> "check", refresh_token |-> refresh_token, token_info |-> None,
     access_token |-> None, new_refresh_token |-> None, status |-> 0, detail |-> ""]
\* a caller whose call has returned or raised
Returned(call, status, detail) ==
    [call EXCEPT !.pc = "done", !.status = status, !.detail = detail]

\* variant: the consumed token is removed with a default, as by pop(token, None)
delete_consumed_Tolerant(store, refresh_token) ==
    [status |-> HTTP_200_OK, detail |-> "Token refreshed successfully",
     store |-> Restrict(store, DOMAIN store \ {refresh_token})]

\* del refresh_tokens[refresh_token] at the end of a rotation
delete_consumed(store, refresh_token) ==
    IF refresh_token \in DOMAIN store
    THEN [status |-> HTTP_200_OK, detail |-> "Token refreshed successfully",
          store |-> Restrict(store, DOMAIN store \ {refresh_token})]
    ELSE [status |-> HTTP_500_INTERNAL_SERVER_ERROR, detail |-> "KeyError",
          store |-> store]

-----------------------------------------------------------------------------
(* Initial state: the maps are empty at import *)

\* LocalDatabase(): the three tables, empty
LocalDatabase == [users |-> <<>>, sessions |-> <<>>, blacklist |-> <<>>]

Init ==
    /\ now = 0
    /\ ticks = 0
    /\ ROTATE_REFRESH \in BOOLEAN
    /\ DB_USERS = <<>>
    /\ refresh_tokens = <<>>
    /\ blacklisted_tokens = <<>>
    /\ issued = <<>>
    /\ held = {}
    /\ pairs = {}
    /\ revoked = {}
    /\ rotated = {}
    /\ last = [op |-> "init"]
    /\ OBJECTS = <<>>
    /\ oauth_users = <<>>
    /\ github_id_to_username = <<>>
    /\ callers = [c \in Callers |-> Idle]
    /\ db = LocalDatabase

-----------------------------------------------------------------------------
(* Operations *)

Tick(t) ==
    /\ Budget > 0
    /\ now' = t
    /\ ticks' = ticks + 1
    /\ last' = [op |-> "tick"]
    /\ UNCHANGED <<ROTATE_REFRESH, DB_USERS, refresh_tokens, blacklisted_tokens,
                   issued, held, pairs, revoked, rotated, aside>>

\* services.users.create_user
CreateUser(payload) ==
    LET r == create_user(DB_USERS, payload, FreshUid(payload.username)) IN
    /\ DB_USERS' = r.users
    /\ last' = [op |-> "create_user", status |-> r.status, detail |-> r.detail]
    /\ UNCHANGED <<now, ticks, ROTATE_REFRESH, refresh_tokens, blacklisted_tokens,
                   issued, held, pairs, revoked, rotated, aside>>

\* the uid a login or a refresh is about, None when there is none
LoginUid(login_request) ==
    validate_credentials(DB_USERS, login_request.username, login_request.password)
RefreshInfo(refresh_token) ==
    IF refresh_token \in DOMAIN refresh_tokens
    THEN refresh_tokens[refresh_token]
    ELSE [sub |-> UUIDv(0), exp |-> 0, is_remember_me |-> FALSE]

\* the calls as the handlers make them on the current state
AuthorizeCall(login_request) ==
    LET uid == IF LoginUid(login_request) = None THEN UUIDv(0)
               ELSE LoginUid(login_request)
    IN authorize(DB_USERS, refresh_tokens, login_request, now, FreshJti(uid, now),
                 FreshRT(uid, login_request.is_remember_me, now))
RefreshCall(refresh_token, d) ==
    LET info == RefreshInfo(refresh_token)
    IN generate_refresh_token(refresh_tokens, refresh_token, ROTATE_REFRESH, now, d,
                              FreshJti(info.sub, now),
                              FreshRT(info.sub, info.is_remember_me, now))
LogoutCall(token, d) ==
    blacklist_token(blacklisted_tokens, refresh_tokens, token, now, d)

\* business_logic.authorize
Login(login_request) ==
    LET r == AuthorizeCall(login_request)
        ok == r.status = HTTP_200_OK
    IN /\ ok => Budget > 0
       /\ refresh_tokens' = r.store
       /\ issued' = IF ok
                    THEN [k \in DOMAIN issued \cup {r.access_token} |->
                             IF k = r.access_token THEN LoginUid(login_request)
                                                   ELSE issued[k]]
                    ELSE issued
       /\ held' = IF ok THEN held \cup {r.refresh_token} ELSE held
       /\ pairs' = IF ok
                   THEN pairs \cup {[access_token |-> r.access_token,
                                     refresh_token |-> r.refresh_token]}
                   ELSE pairs
       /\ last' = [op |-> "login", arg |-> login_request, status |-> r.status,
                   detail |-> r.detail]
       /\ UNCHANGED <<now, ticks, ROTATE_REFRESH, DB_USERS, blacklisted_tokens,
                      revoked, rotated, aside>>

\* generate_refresh_token; the clock advances by d before the cleanup inside
\* create_refresh_token reads it
Refresh(refresh_token, d) ==
    LET r == RefreshCall(refresh_token, d)
        ok == r.status = HTTP_200_OK
    IN /\ ok => Budget > d
       /\ (d > 0) => /\ ROTATE_REFRESH
                     /\ validate_refresh_token(refresh_tokens, refresh_token,
                                               now).status = HTTP_200_OK
       /\ refresh_tokens' = r.store
       /\ now' = now + d
       /\ ticks' = ticks + d
       /\ issued' = IF ok
                    THEN [k \in DOMAIN issued \cup {r.access_token} |->
                             IF k = r.access_token
                             THEN refresh_tokens[refresh_token].sub ELSE issued[k]]
                    ELSE issued
       /\ held' = IF ok THEN held \cup {r.refresh_token} ELSE held
       /\ rotated' = IF ok /\ ROTATE_REFRESH THEN rotated \cup {refresh_token}
                     ELSE rotated
       /\ last' = [op |-> "refresh", arg |-> refresh_token, status |-> r.status,
                   detail |-> r.detail]
       /\ UNCHANGED <<ROTATE_REFRESH, DB_USERS, blacklisted_tokens, pairs, revoked, aside>>

\* the logout endpoint: blacklist_token, then "Logout successful"; the clock advances
\* by d between the verification of the token and the cleanups
Logout(token, d) ==
    LET r == LogoutCall(token, d) IN
    /\ (d > 0) => jwt_decode(token, JWT_SECRET_KEY, now).error = "none"
    /\ blacklisted_tokens' = r.blacklist
    /\ refresh_tokens' = r.store
    /\ now' = now + d
    /\ ticks' = ticks + d
    /\ revoked' = IF r.recorded THEN revoked \cup {token} ELSE revoked
    /\ last' = [op |-> "logout", status |-> r.status,
                detail |-> IF r.status = HTTP_200_OK THEN "Logout successful" ELSE ""]
    /\ UNCHANGED <<ROTATE_REFRESH, DB_USERS, issued, held, pairs, rotated, aside>>

\* get_current_user, the dependency of the protected routes
GetCurrentUser(token) ==
    LET r == get_current_user(blacklisted_tokens, token, now) IN
    /\ last' = [op |-> "get_current_user", status |-> r.status, detail |-> r.detail,
                uid |-> r.uid]
    /\ UNCHANGED <<now, ticks, ROTATE_REFRESH, DB_USERS, refresh_tokens,
                   blacklisted_tokens, issued, held, pairs, revoked,
                   rotated, aside>>

\* a handler wrapped by roles(access_roles)
RoleGate(token, access_roles) ==
    LET r == roles(DB_USERS, blacklisted_tokens, access_roles, token, now) IN
    /\ last' = [op |-> "roles", status |-> r.status, detail |-> r.detail,
                invoked |-> r.invoked]
    /\ UNCHANGED <<now, ticks, ROTATE_REFRESH, DB_USERS, refresh_tokens,
                   blacklisted_tokens, issued, held, pairs, revoked,
                   rotated, aside>>

\* cleanup_expired_blacklisted_tokens()
CleanupBlacklist ==
    /\ blacklisted_tokens' = cleanup_expired_blacklisted_tokens(blacklisted_tokens, now)
    /\ last' = [op |-> "cleanup_expired_blacklisted_tokens"]
    /\ UNCHANGED <<now, ticks, ROTATE_REFRESH, DB_USERS, refresh_tokens, issued, held,
                   pairs, revoked, rotated, aside>>

\* cleanup_expired_refresh_tokens()
CleanupRefresh ==
    /\ refresh_tokens' = cleanup_expired_refresh_tokens(refresh_tokens, now, None)
    /\ last' = [op |-> "cleanup_expired_refresh_tokens"]
    /\ UNCHANGED <<now, ticks, ROTATE_REFRESH, DB_USERS, blacklisted_tokens, issued,
                   held, pairs, revoked, rotated, aside>>

Next ==
    \/ \E t \in Instants : Tick(t)
    \/ \E payload \in RegistrationRequests : CreateUser(payload)
    \/ \E login_request \in LoginRequests : Login(login_request)
    \/ \E rt \in RefreshTokens, d \in Delays : Refresh(rt, d)
    \/ \E tk \in AccessTokens, d \in Delays : Logout(tk, d)
    \/ \E tk \in AccessTokens : GetCurrentUser(tk)
    \/ \E tk \in AccessTokens, rs \in RequiredRoles : RoleGate(tk, rs)
    \/ CleanupBlacklist
    \/ CleanupRefresh

Spec == Init /\ [][Next]_vars

-----------------------------------------------------------------------------
(* generate_refresh_token statement by statement, for requests that overlap *)

\* everything a step of a request in flight leaves alone
RaceFrame ==
    UNCHANGED <<ticks, ROTATE_REFRESH, DB_USERS, blacklisted_tokens, issued, held,
                pairs, revoked, rotated, last, OBJECTS, oauth_users,
                github_id_to_username, now, db>>

\* a request arrives; the callers are interchangeable, so the first to arrive is
\* called 1
Begin(c, refresh_token) ==
    /\ callers[c].pc = "idle"
    /\ \A b \in Callers : b < c => callers[b].pc # "idle"
    /\ Budget > 0
    /\ callers' = [callers EXCEPT ![c] = Entered(refresh_token)]
    /\ UNCHANGED refresh_tokens
    /\ RaceFrame

\* validate_refresh_token: if refresh_token not in refresh_tokens
Check(c) ==
    LET call == callers[c] IN
    /\ call.pc = "check"
    /\ callers' = [callers EXCEPT ![c] =
                      IF call.refresh_token \in DOMAIN refresh_tokens
                      THEN [call EXCEPT !.pc = "load"]
                      ELSE Returned(call, HTTP_401_UNAUTHORIZED, "Invalid refresh token")]
    /\ UNCHANGED refresh_tokens
    /\ RaceFrame

\* validate_refresh_token: token_info = refresh_tokens[refresh_token]
Load(c) ==
    LET call == callers[c] IN
    /\ call.pc = "load"
    /\ callers' = [callers EXCEPT ![c] =
                      IF call.refresh_token \in DOMAIN refresh_tokens
                      THEN [call EXCEPT !.pc = "expiry",
                                        !.token_info = refresh_tokens[call.refresh_token]]
                      ELSE Returned(call, HTTP_500_INTERNAL_SERVER_ERROR, "KeyError")]
    /\ UNCHANGED refresh_tokens
    /\ RaceFrame

\* validate_refresh_token: if token_info.exp < datetime.now(timezone.utc)
Expiry(c) ==
    LET call == callers[c] IN
    /\ call.pc = "expiry"
    /\ callers' = [callers EXCEPT ![c] =
                      [call EXCEPT !.pc = IF call.token_info.exp < now THEN "purge"
                                                                       ELSE "issue"]]
    /\ UNCHANGED refresh_tokens
    /\ RaceFrame

\* validate_refresh_token: del refresh_tokens[refresh_token], then the 401
Purge(c) ==
    LET call == callers[c] IN
    /\ call.pc = "purge"
    /\ IF call.refresh_token \in DOMAIN refresh_tokens
       THEN /\ refresh_tokens' = Restrict(refresh_tokens,
                                          DOMAIN refresh_tokens \ {call.refresh_token})
            /\ callers' = [callers EXCEPT ![c] =
                              Returned(call, HTTP_401_UNAUTHORIZED,
                                       "Refresh token has expired")]
       ELSE /\ UNCHANGED refresh_tokens
            /\ callers' = [callers EXCEPT ![c] =
                              Returned(call, HTTP_500_INTERNAL_SERVER_ERROR, "KeyError")]
    /\ RaceFrame

\* generate_refresh_token: create_jwt_token, then the test of settings.ROTATE_REFRESH
Issue(c) ==
    LET call == callers[c]
        token == create_jwt_token(call.token_info.sub, now,
                                  FreshJti(call.token_info.sub, now) + c)
    IN /\ call.pc = "issue"
       /\ callers' = [callers EXCEPT ![c] =
                         IF ROTATE_REFRESH
                         THEN [call EXCEPT !.pc = "store", !.access_token = token]
                         ELSE [Returned(call, HTTP_200_OK, "Token refreshed successfully")
                                  EXCEPT !.access_token = token,
                                         !.new_refresh_token = call.refresh_token]]
       /\ UNCHANGED refresh_tokens
       /\ RaceFrame

\* create_refresh_token: refresh_tokens[refresh_token] = RefreshTokenInfo(...)
Store(c) ==
    LET call == callers[c]
        info == call.token_info
        new_rt == FreshRT(info.sub, info.is_remember_me, now)
    IN /\ call.pc = "store"
       /\ refresh_tokens' = [k \in DOMAIN refresh_tokens \cup {new_rt} |->
                                IF k = new_rt
                                THEN [sub |-> info.sub,
                                      exp |-> now + RefreshTTL(info.is_remember_me),
                                      is_remember_me |-> info.is_remember_me]
                                ELSE refresh_tokens[k]]
       /\ callers' = [callers EXCEPT ![c] =
                         [call EXCEPT !.pc = "cleanup", !.new_refresh_token = new_rt]]
       /\ RaceFrame

\* create_refresh_token: cleanup_expired_refresh_tokens()
Cleanup(c) ==
    LET call == callers[c] IN
    /\ call.pc = "cleanup"
    /\ refresh_tokens' = cleanup_expired_refresh_tokens(refresh_tokens, now, None)
    /\ callers' = [callers EXCEPT ![c] = [call EXCEPT !.pc = "delete"]]
    /\ RaceFrame

\* generate_refresh_token: del refresh_tokens[refresh_token], then the response
Delete(c) ==
    LET call == callers[c]
        r == delete_consumed(refresh_tokens, call.refresh_token)
    IN /\ call.pc = "delete"
       /\ refresh_tokens' = r.store
       /\ callers' = [callers EXCEPT ![c] = Returned(call, r.status, r.detail)]
       /\ RaceFrame

\* the instants that matter to a refresh: the expiries of the stored refresh tokens
RefreshInstants ==
    {t \in Instants : \E k \in DOMAIN refresh_tokens :
                          t \in {refresh_tokens[k].exp, refresh_tokens[k].exp + 1}}

RaceNext ==
    \/ \E t \in RefreshInstants : Tick(t)
    \/ \E payload \in RegistrationRequests : CreateUser(payload)
    \/ \E login_request \in LoginRequests :
          LoginUid(login_request) # None /\ Login(login_request)
    \/ \E c \in Callers, rt \in RefreshTokens : Begin(c, rt)
    \/ \E c \in Callers : Check(c)
    \/ \E c \in Callers : Load(c)
    \/ \E c \in Callers : Expiry(c)
    \/ \E c \in Callers : Purge(c)
    \/ \E c \in Callers : Issue(c)
    \/ \E c \in Callers : Store(c)
    \/ \E c \in Callers : Cleanup(c)
    \/ \E c \in Callers : Delete(c)

RaceSpec == Init /\ [][RaceNext]_vars

-----------------------------------------------------------------------------
(* The process after a restart.  DB_USERS, refresh_tokens and blacklisted_tokens *)
(* live in the memory of the process and are empty again at import, while the   *)
(* access tokens handed out before are verified with settings.JWT_SECRET_KEY,   *)
(* which the operator may fix in .env: they stay validly signed until they      *)
(* expire.                                                                      *)

\* the access tokens of the earlier process: issued at clock 0 to principals that
\* were registered then
Earlier ==
    LET made == {<<create_jwt_token(UUIDv(n), 0, 1), UUIDv(n)>> : n \in {3, 4}}
    IN [tk \in {m[1] : m \in made} |-> (CHOOSE m \in made : m[1] = tk)[2]]

ResolveInit ==
    /\ now = 1
    /\ ticks = 0
    /\ ROTATE_REFRESH \in BOOLEAN
    /\ DB_USERS = <<>>
    /\ refresh_tokens = <<>>
    /\ blacklisted_tokens = <<>>
    /\ issued \in {Restrict(Earlier, S) : S \in SUBSET (DOMAIN Earlier) \ {{}}}
    /\ held = {}
    /\ pairs = {}
    /\ revoked = {}
    /\ rotated = {}
    /\ last = [op |-> "init"]
    /\ OBJECTS = <<>>
    /\ oauth_users = <<>>
    /\ github_id_to_username = <<>>
    /\ callers = [c \in Callers |-> Idle]
    /\ db = LocalDatabase

ResolveNext ==
    \/ \E t \in Instants : Tick(t)
    \/ \E payload \in RegistrationRequests : CreateUser(payload)
    \/ \E login_request \in LoginRequests : Login(login_request)
    \/ \E tk \in AccessTokens, d \in Delays : Logout(tk, d)
    \/ \E tk \in AccessTokens : GetCurrentUser(tk)
    \/ \E tk \in AccessTokens, rs \in RequiredRoles : RoleGate(tk, rs)

ResolveSpec == ResolveInit /\ [][ResolveNext]_vars

-----------------------------------------------------------------------------
(* The object store of app/api/objects.py.  The handlers receive the user name *)
(* the bearer dependency resolved; when it raised 401 the handler does not run. *)

\* the user names of app.db.USERS that callers authenticate as
Usernames == {"admin", "kek"}
ObjectModels == { [field1 |-> "test", field2 |-> 1], [field1 |-> "other", field2 |-> 2] }
ObjectIds == 0 .. MaxObjects + 1
\* what app.auth.get_current_user makes of the Authorization header: the sub of a
\* token it accepts, or 401
Bearers == {[sub |-> u, accepted |-> TRUE] : u \in Usernames}
           \cup {[sub |-> "admin", accepted |-> FALSE]}

\* variant: the new object is stored under len(OBJECTS)
create_object_KeyedByLen(objects, object_model, user_name) ==
    LET key == Cardinality(DOMAIN objects) IN
    [status |-> HTTP_200_OK,
     objects |-> [k \in DOMAIN objects \cup {key} |->
                     IF k = key
                     THEN [field1 |-> object_model.field1, field2 |-> object_model.field2,
                           username |-> user_name]
                     ELSE objects[k]]]

\* create_object: OBJECTS[len(OBJECTS.keys()) + 1] = DBObjectModel(...)
create_object(objects, object_model, user_name) ==
    LET key == Cardinality(DOMAIN objects) + 1 IN
    [status |-> HTTP_200_OK,
     objects |-> [k \in DOMAIN objects \cup {key} |->
                     IF k = key
                     THEN [field1 |-> object_model.field1, field2 |-> object_model.field2,
                           username |-> user_name]
                     ELSE objects[k]]]

\* variant: the owner is not compared
get_object_NoOwnerCheck(objects, object_id, user_name) ==
    IF object_id \notin DOMAIN objects
    THEN [status |-> HTTP_404_NOT_FOUND, detail |-> "Unknown object", body |-> None,
          objects |-> objects]
    ELSE [status |-> HTTP_200_OK, detail |-> "",
          body |-> [field1 |-> objects[object_id].field1,
                    field2 |-> objects[object_id].field2],
          objects |-> objects]

\* get_object; body is the response, ObjectModel.model_validate(obj) serialised as
\* response_model=ObjectModel; objects is the store as the call leaves it
get_object(objects, object_id, user_name) ==
    IF object_id \notin DOMAIN objects
    THEN [status |-> HTTP_404_NOT_FOUND, detail |-> "Unknown object", body |-> None,
          objects |-> objects]
    ELSE LET obj == objects[object_id] IN
         IF user_name # obj.username
         THEN [status |-> HTTP_400_BAD_REQUEST,
               detail |-> "You're not an owner of this object", body |-> None,
               objects |-> objects]
         ELSE [status |-> HTTP_200_OK, detail |-> "",
               body |-> [field1 |-> obj.field1, field2 |-> obj.field2],
               objects |-> objects]

ObjectsFrame ==
    UNCHANGED <<now, ticks, ROTATE_REFRESH, DB_USERS, refresh_tokens, blacklisted_tokens,
                issued, held, pairs, revoked, rotated, oauth_users,
                github_id_to_username, callers, db>>

\* POST /api/objects
CreateObject(object_model, credentials) ==
    /\ Cardinality(DOMAIN OBJECTS) < MaxObjects
    /\ IF ~credentials.accepted
       THEN /\ OBJECTS' = OBJECTS
            /\ last' = [op |-> "create_object", status |-> HTTP_401_UNAUTHORIZED]
       ELSE LET r == create_object(OBJECTS, object_model, credentials.sub) IN
            /\ OBJECTS' = r.objects
            /\ last' = [op |-> "create_object", status |-> r.status]
    /\ ObjectsFrame

\* GET /api/objects/{object_id}
GetObject(object_id, credentials) ==
    /\ IF ~credentials.accepted
       THEN /\ OBJECTS' = OBJECTS
            /\ last' = [op |-> "get_object", status |-> HTTP_401_UNAUTHORIZED,
                        body |-> None]
       ELSE LET r == get_object(OBJECTS, object_id, credentials.sub) IN
            /\ OBJECTS' = r.objects
            /\ last' = [op |-> "get_object", status |-> r.status, body |-> r.body]
    /\ ObjectsFrame

ObjectsNext ==
    \/ \E object_model \in ObjectModels, credentials \in Bearers :
          CreateObject(object_model, credentials)
    \/ \E object_id \in ObjectIds, credentials \in Bearers :
          GetObject(object_id, credentials)

ObjectsSpec == Init /\ [][ObjectsNext]_vars

-----------------------------------------------------------------------------
(* The OAuth user store of app/database/users.py *)

\* the user objects the GitHub API returns: two accounts, two logins (an account can
\* be renamed and a freed login taken by another account), two states of the profile
GithubUserData ==
    { [id |-> id, login |-> login, name |-> <<"name", v>>, email |-> <<"email", v>>,
       avatar_url |-> <<"avatar_url", v>>, html_url |-> <<"html_url", v>>] :
         id \in {101, 102}, login \in {"octo", "cat"}, v \in {1, 2} }

\* OAuthUser(...), created at clock t
OAuthUser(github_user_data, t) ==
    [github_id |-> github_user_data.id,
     username |-> github_user_data.login,
     display_name |-> github_user_data.name,
     email |-> github_user_data.email,
     avatar_url |-> github_user_data.avatar_url,
     profile_url |-> github_user_data.html_url,
     provider |-> "github",
     created_at |-> t,
     last_login |-> t]

\* variant: the lookup by GitHub id is skipped, a user is stored on every call
create_or_update_oauth_user_AlwaysCreates(users, ids, github_user_data, t) ==
    LET github_id == github_user_data.id
        username == github_user_data.login
        oauth_user == OAuthUser(github_user_data, t)
    IN [users |-> [u \in DOMAIN users \cup {username} |->
                      IF u = username THEN oauth_user ELSE users[u]],
        ids |-> [g \in DOMAIN ids \cup {github_id} |->
                    IF g = github_id THEN username ELSE ids[g]],
        user |-> oauth_user]

\* create_or_update_oauth_user at clock t: the two maps as the call leaves them and
\* the user it returns
create_or_update_oauth_user(users, ids, github_user_data, t) ==
    LET github_id == github_user_data.id
        username == github_user_data.login
    IN IF github_id \in DOMAIN ids /\ ids[github_id] # "" /\ ids[github_id] \in DOMAIN users
       THEN LET existing_username == ids[github_id]
                existing_user ==
                    [users[existing_username] EXCEPT
                        !.display_name = github_user_data.name,
                        !.email = github_user_data.email,
                        !.avatar_url = github_user_data.avatar_url,
                        !.profile_url = github_user_data.html_url,
                        !.last_login = t]
            IN [users |-> [users EXCEPT ![existing_username] = existing_user],
                ids |-> ids,
                user |-> existing_user]
       ELSE LET oauth_user == OAuthUser(github_user_data, t)
            IN [users |-> [u \in DOMAIN users \cup {username} |->
                              IF u = username THEN oauth_user ELSE users[u]],
                ids |-> [g \in DOMAIN ids \cup {github_id} |->
                            IF g = github_id THEN username ELSE ids[g]],
                user |-> oauth_user]

\* delete_oauth_user
delete_oauth_user(users, ids, username) ==
    IF username \in DOMAIN users
    THEN LET user == users[username] IN
         [users |-> Restrict(users, DOMAIN users \ {username}),
          ids |-> IF user.github_id \in DOMAIN ids
                  THEN Restrict(ids, DOMAIN ids \ {user.github_id})
                  ELSE ids,
          deleted |-> TRUE]
    ELSE [users |-> users, ids |-> ids, deleted |-> FALSE]

\* get_oauth_user_by_github_id
get_oauth_user_by_github_id(users, ids, github_id) ==
    IF github_id \in DOMAIN ids /\ ids[github_id] # ""
    THEN IF ids[github_id] \in DOMAIN users THEN users[ids[github_id]] ELSE None
    ELSE None

OAuthFrame ==
    UNCHANGED <<now, ticks, ROTATE_REFRESH, DB_USERS, refresh_tokens, blacklisted_tokens,
                issued, held, pairs, revoked, rotated, OBJECTS, callers, db>>

CreateOrUpdateOAuthUser(github_user_data) ==
    LET r == create_or_update_oauth_user(oauth_users, github_id_to_username,
                                         github_user_data, now) IN
    /\ oauth_users' = r.users
    /\ github_id_to_username' = r.ids
    /\ last' = [op |-> "create_or_update_oauth_user", arg |-> github_user_data,
                user |-> r.user]
    /\ OAuthFrame

DeleteOAuthUser(username) ==
    LET r == delete_oauth_user(oauth_users, github_id_to_username, username) IN
    /\ oauth_users' = r.users
    /\ github_id_to_username' = r.ids
    /\ last' = [op |-> "delete_oauth_user", deleted |-> r.deleted]
    /\ OAuthFrame

OAuthNext ==
    \/ \E github_user_data \in GithubUserData : CreateOrUpdateOAuthUser(github_user_data)
    \/ \E username \in {"octo", "cat"} : DeleteOAuthUser(username)

OAuthSpec == Init /\ [][OAuthNext]_vars

-----------------------------------------------------------------------------
(* Revocation of single refresh tokens.  No handler calls revoke_refresh_token; *)
(* it is exercised here on the stores that logins and logouts build.           *)

Revoke(refresh_token) ==
    LET r == revoke_refresh_token(refresh_tokens, refresh_token) IN
    /\ refresh_tokens' = r.store
    /\ last' = [op |-> "revoke_refresh_token", arg |-> refresh_token,
                status |-> r.status]
    /\ UNCHANGED <<now, ticks, ROTATE_REFRESH, DB_USERS, blacklisted_tokens, issued,
                   held, pairs, revoked, rotated, aside>>

RevokeNext ==
    \/ \E payload \in RegistrationRequests : CreateUser(payload)
    \/ \E login_request \in LoginRequests :
          LoginUid(login_request) # None /\ Login(login_request)
    \/ \E tk \in DOMAIN issued : Logout(tk, 0)
    \/ \E rt \in RefreshTokens : Revoke(rt)

RevokeSpec == Init /\ [][RevokeNext]_vars

-----------------------------------------------------------------------------
(* Refreshes alone: logins and refreshes as the clock passes the expiries, so  *)
(* that chains of rotations are followed without the other requests between.   *)

RotateNext ==
    \/ \E t \in Instants : Tick(t)
    \/ \E payload \in RegistrationRequests : CreateUser(payload)
    \/ \E login_request \in LoginRequests :
          LoginUid(login_request) # None /\ Login(login_request)
    \/ \E rt \in RefreshTokens, d \in Delays : Refresh(rt, d)

RotateSpec == Init /\ [][RotateNext]_vars

-----------------------------------------------------------------------------
(* Registrations: create_user called again and again, with usernames that are  *)
(* new and usernames that are taken, each call drawing its uid from uuid4.     *)

MaxUsers == 3

\* the registration payloads: taken usernames come back with another password and
\* other roles
Registrations ==
    { [username |-> u, password |-> v.password, roles |-> v.roles] :
          u \in {"alice", "bob", "carol", "dave"},
          v \in { [password |-> "s3cret", roles |-> <<"user">>],
                  [password |-> "hunter2", roles |-> <<"admin", "user">>] } }

\* the values uuid.uuid4() returns to one call, in order: never one it returned before
Uuid4Draws(users) ==
    LET n == Cardinality(DOMAIN users) IN <<UUIDv(n + 1), UUIDv(n + 2)>>

\* generate_user_uid: the first draw that is not a key of DB_USERS.  The keys are
\* the string forms, the draw is a UUID, so the test lets every draw through.
generate_user_uid(users, draws) ==
    draws[CHOOSE i \in DOMAIN draws :
              /\ draws[i] \notin DOMAIN users
              /\ \A j \in DOMAIN draws : j < i => draws[j] \in DOMAIN users]

\* create_user(payload) on the current store
RegisterUser(payload) ==
    LET r == create_user(DB_USERS, payload,
                         generate_user_uid(DB_USERS, Uuid4Draws(DB_USERS)))
    IN /\ r.status = HTTP_200_OK => Cardinality(DOMAIN DB_USERS) < MaxUsers
       /\ DB_USERS' = r.users
       /\ last' = [op |-> "create_user", arg |-> payload, status |-> r.status,
                   detail |-> r.detail]
       /\ UNCHANGED <<now, ticks, ROTATE_REFRESH, refresh_tokens, blacklisted_tokens,
                      issued, held, pairs, revoked, rotated, aside>>

UsersNext == \E payload \in Registrations : RegisterUser(payload)

UsersSpec == Init /\ [][UsersNext]_vars

-----------------------------------------------------------------------------
(* The LocalDatabase of app/database/local_db.py: named tables of records *)

\* variant: the table is replaced by one that holds the new record only
db_set_ReplacesTable(data, table, key, value) ==
    [t \in DOMAIN data \cup {table} |->
        IF t = table THEN [k \in {key} |-> value] ELSE data[t]]

\* LocalDatabase.get: the record, None when the table or the key is missing
db_get(data, table, key) ==
    IF table \in DOMAIN data /\ key \in DOMAIN data[table]
    THEN data[table][key] ELSE None

\* LocalDatabase.set: _data after the call; a missing table is created
db_set(data, table, key, value) ==
    LET rows == IF table \in DOMAIN data THEN data[table] ELSE <<>>
    IN [t \in DOMAIN data \cup {table} |->
           IF t = table
           THEN [k \in DOMAIN rows \cup {key} |-> IF k = key THEN value ELSE rows[k]]
           ELSE data[t]]

\* LocalDatabase.delete: _data after the call and the value returned
db_delete(data, table, key) ==
    IF table \in DOMAIN data /\ key \in DOMAIN data[table]
    THEN [data |-> [data EXCEPT ![table] = Restrict(@, DOMAIN @ \ {key})],
          deleted |-> TRUE]
    ELSE [data |-> data, deleted |-> FALSE]

\* LocalDatabase.exists
db_exists(data, table, key) ==
    table \in DOMAIN data /\ key \in DOMAIN data[table]

\* LocalDatabase.get_all: a copy of the table, empty when the table is missing
db_get_all(data, table) ==
    IF table \in DOMAIN data THEN data[table] ELSE <<>>

\* LocalDatabase.clear
db_clear(data) == [users |-> <<>>, sessions |-> <<>>, blacklist |-> <<>>]

\* the tables, keys and records the callers use; "cache" is a table the constructor
\* does not create
Tables == {"users", "blacklist", "cache"}
Keys == {"k1", "k2"}
Records == {[v |-> 1], [v |-> 2]}

DbFrame ==
    UNCHANGED <<now, ticks, ROTATE_REFRESH, DB_USERS, refresh_tokens, blacklisted_tokens,
                issued, held, pairs, revoked, rotated, OBJECTS, oauth_users,
                github_id_to_username, callers>>

\* db.set(table, key, value)
DbSet(table, key, value) ==
    /\ db' = db_set(db, table, key, value)
    /\ last' = [op |-> "set", table |-> table, key |-> key, value |-> value]
    /\ DbFrame

\* db.delete(table, key)
DbDelete(table, key) ==
    LET r == db_delete(db, table, key) IN
    /\ db' = r.data
    /\ last' = [op |-> "delete", table |-> table, key |-> key, deleted |-> r.deleted]
    /\ DbFrame

\* db.clear()
DbClear ==
    /\ db' = db_clear(db)
    /\ last' = [op |-> "clear"]
    /\ DbFrame

LocalNext ==
    \/ \E table \in Tables, key \in Keys, value \in Records : DbSet(table, key, value)
    \/ \E table \in Tables, key \in Keys : DbDelete(table, key)
    \/ DbClear

LocalSpec == Init /\ [][LocalNext]_vars

-----------------------------------------------------------------------------
(* Keycloak bearer authentication, app/keycloak/auth.py.  Keycloak is outside  *)
(* the program: what its userinfo endpoint answers for a token is an input.    *)

\* the bearer strings presented
KeycloakTokens == {"kc-token-1", "kc-token-2"}

\* what keycloak_openid.userinfo(token) does: it raises, or it returns the claims.
\* preferred_username "" stands for a missing or empty claim, realm_access "null"
\* for a claim that is present with the JSON value null.
KeycloakResponses ==
    {[raises |-> TRUE]}
    \cup { [raises |-> FALSE,
            userinfo |-> [preferred_username |-> u, email |-> <<"email", v>>,
                          sub |-> <<"sub", u>>, realm_access |-> ra]] :
               u \in {"alice", "bob", ""}, v \in {1, 2},
               ra \in {"null", "user"} }

\* variant: the blacklist table is not consulted
get_current_user_keycloak_SkipsBlacklist(data, token, response, t) ==
    IF response.raises
    THEN \* keycloak_openid.userinfo raised; validate_token turns it into a 401
         [status |-> HTTP_401_UNAUTHORIZED, detail |-> "Invalid or expired token",
          username |-> "", data |-> data]
    ELSE LET userinfo == response.userinfo
             username == userinfo.preferred_username
         IN IF username = ""
            THEN [status |-> HTTP_401_UNAUTHORIZED, detail |-> "Invalid token payload",
                  username |-> "", data |-> data]
            ELSE IF ~db_exists(data, "users", username) /\ userinfo.realm_access = "null"
            THEN \* None.get("roles", []) raises AttributeError, caught as Exception
                 [status |-> HTTP_401_UNAUTHORIZED, detail |-> "Authentication failed",
                  username |-> "", data |-> data]
            ELSE LET user_data == [username |-> username,
                                   email |-> userinfo.email,
                                   keycloak_id |-> userinfo.sub,
                                   roles |-> userinfo.realm_access,
                                   created_at |-> t]
                     cached == IF ~db_exists(data, "users", username)
                               THEN db_set(data, "users", username, user_data)
                               ELSE data
                 IN [status |-> HTTP_200_OK, detail |-> "",
                     username |-> username, data |-> cached]

\* get_current_user_keycloak at clock t, with Keycloak's answer for the token: how
\* the call ends (200: the username is returned; 401: HTTPException, username "" for
\* no value returned), and _data as it leaves it
get_current_user_keycloak(data, token, response, t) ==
    IF response.raises
    THEN \* keycloak_openid.userinfo raised; validate_token turns it into a 401
         [status |-> HTTP_401_UNAUTHORIZED, detail |-> "Invalid or expired token",
          username |-> "", data |-> data]
    ELSE LET userinfo == response.userinfo
             username == userinfo.preferred_username
         IN IF username = ""
            THEN [status |-> HTTP_401_UNAUTHORIZED, detail |-> "Invalid token payload",
                  username |-> "", data |-> data]
            ELSE IF ~db_exists(data, "users", username) /\ userinfo.realm_access = "null"
            THEN \* None.get("roles", []) raises AttributeError, caught as Exception
                 [status |-> HTTP_401_UNAUTHORIZED, detail |-> "Authentication failed",
                  username |-> "", data |-> data]
            ELSE LET user_data == [username |-> username,
                                   email |-> userinfo.email,
                                   keycloak_id |-> userinfo.sub,
                                   roles |-> userinfo.realm_access,
                                   created_at |-> t]
                     cached == IF ~db_exists(data, "users", username)
                               THEN db_set(data, "users", username, user_data)
                               ELSE data
                 IN IF db_exists(cached, "blacklist", token)
                    THEN [status |-> HTTP_401_UNAUTHORIZED,
                          detail |-> "Token has been revoked",
                          username |-> "", data |-> cached]
                    ELSE [status |-> HTTP_200_OK, detail |-> "",
                          username |-> username, data |-> cached]

\* a request through the dependency
GetCurrentUserKeycloak(token, response) ==
    LET r == get_current_user_keycloak(db, token, response, now) IN
    /\ db' = r.data
    /\ last' = [op |-> "get_current_user_keycloak", token |-> token,
                response |-> response, status |-> r.status, detail |-> r.detail]
    /\ DbFrame

\* what the rest of the application does with the database: it records a token in
\* the blacklist table, drops a cached user, or clears everything
KeycloakNext ==
    \/ \E token \in KeycloakTokens, response \in KeycloakResponses :
          GetCurrentUserKeycloak(token, response)
    \/ \E token \in KeycloakTokens : DbSet("blacklist", token, [v |-> 1])
    \/ \E username \in {"alice", "bob"} : DbDelete("users", username)
    \/ DbClear

KeycloakSpec == Init /\ [][KeycloakNext]_vars

-----------------------------------------------------------------------------
(* Logouts around the expiry of the access token.  blacklist_token reads the   *)
(* clock three times: inside jwt.decode, in cleanup_expired_refresh_tokens and *)
(* in cleanup_expired_blacklisted_tokens; the token can expire in between.     *)

LogoutDelays == {0, 1, 2}

\* the instants around the expiry of the access tokens handed out
LogoutInstants ==
    LET exps == {FromTimestamp(tk.payload.exp) : tk \in DOMAIN issued}
    IN {t \in {e - 1 : e \in exps} \cup exps \cup {e + 1 : e \in exps} : t > now}

LogoutNext ==
    \/ \E t \in LogoutInstants : Tick(t)
    \/ \E payload \in RegistrationRequests : CreateUser(payload)
    \/ \E login_request \in LoginRequests :
          LoginUid(login_request) # None /\ Login(login_request)
    \/ \E tk \in AccessTokens, d \in LogoutDelays :
          /\ d = 0 \/ \E e \in Expiries : now < e /\ e <= now + d
          /\ Logout(tk, d)

LogoutSpec == Init /\ [][LogoutNext]_vars

-----------------------------------------------------------------------------
(* The cleanups statement by statement, for callers that overlap.  Both build *)
(* the list expired_tokens from the map and then delete its members one by    *)
(* one.  The list is taken here in one step; its members are deleted in any   *)
(* order.                                                                     *)

SweepFrame ==
    UNCHANGED <<now, ticks, ROTATE_REFRESH, DB_USERS, issued, held, pairs, revoked,
                rotated, last, OBJECTS, oauth_users, github_id_to_username, db>>

\* a caller entering cleanup_expired_refresh_tokens() or
\* cleanup_expired_blacklisted_tokens()
BeginSweep(c, map) ==
    /\ callers[c].pc = "idle"
    /\ \A b \in Callers : b < c => callers[b].pc # "idle"
    /\ callers' = [callers EXCEPT ![c] =
                      [pc |-> "scan", map |-> map, expired_tokens |-> {},
                       status |-> 0, detail |-> ""]]
    /\ UNCHANGED <<refresh_tokens, blacklisted_tokens>>
    /\ SweepFrame

\* current_time = datetime.now(timezone.utc); expired_tokens = [...]
Scan(c) ==
    LET call == callers[c]
        expired_tokens ==
            IF call.map = "refresh_tokens"
            THEN {k \in DOMAIN refresh_tokens : refresh_tokens[k].exp < now}
            ELSE {k \in DOMAIN blacklisted_tokens : blacklisted_tokens[k] < now}
    IN /\ call.pc = "scan"
       /\ callers' = [callers EXCEPT ![c] =
                         IF expired_tokens = {}
                         THEN Returned(call, HTTP_200_OK, "")
                         ELSE [call EXCEPT !.pc = "sweep",
                                           !.expired_tokens = expired_tokens]]
       /\ UNCHANGED <<refresh_tokens, blacklisted_tokens>>
       /\ SweepFrame

\* del <map>[token] for one member of expired_tokens
SweepOne(c, token) ==
    LET call == callers[c]
        left == call.expired_tokens \ {token}
        map == IF call.map = "refresh_tokens" THEN refresh_tokens ELSE blacklisted_tokens
        swept == Restrict(map, DOMAIN map \ {token})
    IN /\ IF token \in DOMAIN map
          THEN /\ refresh_tokens' = IF call.map = "refresh_tokens" THEN swept
                                    ELSE refresh_tokens
               /\ blacklisted_tokens' = IF call.map = "refresh_tokens"
                                        THEN blacklisted_tokens ELSE swept
               /\ callers' = [callers EXCEPT ![c] =
                                 IF left = {}
                                 THEN Returned([call EXCEPT !.expired_tokens = left],
                                               HTTP_200_OK, "")
                                 ELSE [call EXCEPT !.expired_tokens = left]]
          ELSE /\ UNCHANGED <<refresh_tokens, blacklisted_tokens>>
               /\ callers' = [callers EXCEPT ![c] =
                                 Returned(call, HTTP_500_INTERNAL_SERVER_ERROR,
                                          "KeyError")]
       /\ SweepFrame

\* for token in expired_tokens: del <map>[token]
Sweep(c) ==
    /\ callers[c].pc = "sweep"
    /\ \E token \in callers[c].expired_tokens : SweepOne(c, token)

SweepNext ==
    \/ \E t \in Instants : Tick(t)
    \/ \E payload \in RegistrationRequests : CreateUser(payload)
    \/ \E login_request \in LoginRequests :
          LoginUid(login_request) # None /\ Login(login_request)
    \/ \E tk \in DOMAIN issued : Logout(tk, 0)
    \/ \E c \in Callers, map \in {"refresh_tokens", "blacklisted_tokens"} :
          BeginSweep(c, map)
    \/ \E c \in Callers : Scan(c)
    \/ \E c \in Callers : Sweep(c)

SweepSpec == Init /\ [][SweepNext]_vars

-----------------------------------------------------------------------------
(* blacklist_token statement by statement, overlapping with the statements of *)
(* generate_refresh_token above.                                               *)

LogoutFrame ==
    UNCHANGED <<now, ticks, ROTATE_REFRESH, DB_USERS, issued, held, pairs, revoked,
                rotated, last, OBJECTS, oauth_users, github_id_to_username, db>>

\* a caller entering blacklist_token(token); final will hold the refresh tokens that
\* are stored when the call returns
BeginLogout(c, token) ==
    /\ callers[c].pc = "idle"
    /\ \A b \in Callers : b < c => callers[b].pc # "idle"
    /\ Budget > 0
    /\ callers' = [callers EXCEPT ![c] =
                      [pc |-> "decode", token |-> token, sub |-> None, final |-> {},
                       status |-> 0, detail |-> ""]]
    /\ UNCHANGED <<refresh_tokens, blacklisted_tokens>>
    /\ LogoutFrame

\* payload = jwt.decode(...); InvalidTokenError is swallowed
Decode(c) ==
    LET call == callers[c]
        r == jwt_decode(call.token, JWT_SECRET_KEY, now)
    IN /\ call.pc = "decode"
       /\ callers' = [callers EXCEPT ![c] =
                         IF r.error # "none"
                         THEN [Returned(call, HTTP_200_OK, "")
                                  EXCEPT !.final = DOMAIN refresh_tokens]
                         ELSE [call EXCEPT !.pc = "forget", !.sub = r.payload.sub]]
       /\ UNCHANGED <<refresh_tokens, blacklisted_tokens>>
       /\ LogoutFrame

\* cleanup_expired_refresh_tokens(sub)
Forget(c) ==
    LET call == callers[c] IN
    /\ call.pc = "forget"
    /\ refresh_tokens' = cleanup_expired_refresh_tokens(refresh_tokens, now, call.sub)
    /\ callers' = [callers EXCEPT ![c] = [call EXCEPT !.pc = "record"]]
    /\ UNCHANGED blacklisted_tokens
    /\ LogoutFrame

\* blacklisted_tokens[token] = exp_datetime; cleanup_expired_blacklisted_tokens()
Record(c) ==
    LET call == callers[c]
        added == [k \in DOMAIN blacklisted_tokens \cup {call.token} |->
                     IF k = call.token THEN FromTimestamp(call.token.payload.exp)
                                       ELSE blacklisted_tokens[k]]
    IN /\ call.pc = "record"
       /\ blacklisted_tokens' = cleanup_expired_blacklisted_tokens(added, now)
       /\ callers' = [callers EXCEPT ![c] =
                         [Returned(call, HTTP_200_OK, "")
                             EXCEPT !.final = DOMAIN refresh_tokens]]
       /\ UNCHANGED refresh_tokens
       /\ LogoutFrame

LogoutRaceNext ==
    \/ \E t \in RefreshInstants : Tick(t)
    \/ \E payload \in RegistrationRequests : CreateUser(payload)
    \/ \E login_request \in LoginRequests :
          LoginUid(login_request) # None /\ Login(login_request)
    \/ \E c \in Callers, rt \in held : Begin(c, rt)
    \/ \E c \in Callers, tk \in AccessTokens : BeginLogout(c, tk)
    \/ \E c \in Callers : Check(c)
    \/ \E c \in Callers : Load(c)
    \/ \E c \in Callers : Expiry(c)
    \/ \E c \in Callers : Purge(c)
    \/ \E c \in Callers : Issue(c)
    \/ \E c \in Callers : Store(c)
    \/ \E c \in Callers : Cleanup(c)
    \/ \E c \in Callers : Delete(c)
    \/ \E c \in Callers : Decode(c)
    \/ \E c \in Callers : Forget(c)
    \/ \E c \in Callers : Record(c)

LogoutRaceSpec == Init /\ [][LogoutRaceNext]_vars

-----------------------------------------------------------------------------
(* Properties *)

\* the principal an access token was issued to
Holder(uid) == DB_USERS[Str(uid)]

\* C1: for every token pair (access, refresh) returned by a successful login, once
\* logout has been called with that access token, resolving the access token fails
\* with 401 and refreshing with the refresh token fails with 401 "Invalid refresh
\* token".  Stated on the logout step itself: in the state it leaves, both fail.
C1_LogoutEndsTheSession ==
    [][\A p \in pairs, d \in {0, 1} :
          (last'.op = "logout" /\ Logout(p.access_token, d)) =>
             /\ get_current_user(blacklisted_tokens', p.access_token, now').status
                   = HTTP_401_UNAUTHORIZED
             /\ validate_refresh_token(refresh_tokens', p.refresh_token, now').status
                   = HTTP_401_UNAUTHORIZED
             /\ validate_refresh_token(refresh_tokens', p.refresh_token, now').detail
                   = "Invalid refresh token"]_vars

\* C2: an access token blacklist_token has recorded is never accepted again by
\* decode_jwt_token, whatever logins, refreshes, logouts, cleanups and clock advances
\* follow, also after its blacklist entry has been purged.
C2_RevokedNeverAccepted ==
    \A tk \in revoked :
        decode_jwt_token(blacklisted_tokens, tk, now).status = HTTP_401_UNAUTHORIZED

\* C2 case: a recorded token whose entry has been purged is presented and is rejected
\* as expired
C2_PurgedAndRejected ==
    /\ last.op = "get_current_user"
    /\ last.detail = "Token has expired"
    /\ \E tk \in revoked :
          /\ tk \notin DOMAIN blacklisted_tokens
          /\ decode_jwt_token(blacklisted_tokens, tk, now).detail = "Token has expired"

\* C3: with ROTATE_REFRESH, of two successive generate_refresh_token calls with the
\* same unexpired refresh token the first succeeds with a refresh token different
\* from the input and removes the input from the store, and the second fails with
\* 401 "Invalid refresh token"; a token consumed by a rotation stays invalid.
C3_RotationConsumesTheInput ==
    ROTATE_REFRESH =>
      /\ \A rt \in rotated :
            /\ rt \notin DOMAIN refresh_tokens
            /\ RefreshCall(rt, 0).status = HTTP_401_UNAUTHORIZED
            /\ RefreshCall(rt, 0).detail = "Invalid refresh token"
      /\ \A rt \in DOMAIN refresh_tokens, d \in {0, 1} :
            ~(refresh_tokens[rt].exp < now + d) =>
               LET first == RefreshCall(rt, d)
                   second == generate_refresh_token(first.store, rt, ROTATE_REFRESH,
                                                    now + d, 0,
                                                    FreshJti(RefreshInfo(rt).sub, now + d),
                                                    first.refresh_token)
               IN /\ first.status = HTTP_200_OK
                  /\ first.refresh_token # rt
                  /\ first.refresh_token \in DOMAIN first.store
                  /\ rt \notin DOMAIN first.store
                  /\ second.status = HTTP_401_UNAUTHORIZED
                  /\ second.detail = "Invalid refresh token"
                  /\ second.access_token = None

\* C3 case: a refresh token consumed by a rotation is presented again and is refused
C3_SecondUseRefused ==
    /\ ROTATE_REFRESH
    /\ last.op = "refresh"
    /\ last.arg \in rotated
    /\ last.status = HTTP_401_UNAUTHORIZED
    /\ last.detail = "Invalid refresh token"

\* C4: without ROTATE_REFRESH, in every state in which a stored refresh token is
\* unexpired generate_refresh_token succeeds with it, returns an access token not
\* issued before together with the same refresh token string, and leaves the store
\* as it was (so the next call finds the same store).
C4_RefreshWithoutRotationRepeats ==
    ~ROTATE_REFRESH =>
      \A rt \in DOMAIN refresh_tokens :
          ~(refresh_tokens[rt].exp < now) =>
             LET r == RefreshCall(rt, 0) IN
             /\ r.status = HTTP_200_OK
             /\ r.refresh_token = rt
             /\ r.store = refresh_tokens
             /\ r.access_token \notin DOMAIN issued
             /\ get_current_user(blacklisted_tokens, r.access_token, now).uid
                   = refresh_tokens[rt].sub

\* C4 case: one refresh token, still stored, has bought two access tokens after the
\* login that created it
C4_SameTokenUsedTwice ==
    /\ ~ROTATE_REFRESH
    /\ last.op = "refresh"
    /\ last.status = HTTP_200_OK
    /\ last.arg \in DOMAIN refresh_tokens
    /\ held = {last.arg}
    /\ Cardinality(DOMAIN issued) = 3

\* C5: a stored refresh token whose expiry is in the past is refused by
\* validate_refresh_token and generate_refresh_token with 401 "Refresh token has
\* expired", its entry (and no other) is removed, no access token is issued, and the
\* next call with it is refused with 401 "Invalid refresh token".
C5_ExpiredRefreshTokenRemoved ==
    \A rt \in DOMAIN refresh_tokens :
        refresh_tokens[rt].exp < now =>
           LET v == validate_refresh_token(refresh_tokens, rt, now)
               r == RefreshCall(rt, 0)
               again == generate_refresh_token(r.store, rt, ROTATE_REFRESH, now, 0,
                                               FreshJti(RefreshInfo(rt).sub, now), rt)
           IN /\ v.status = HTTP_401_UNAUTHORIZED
              /\ v.detail = "Refresh token has expired"
              /\ DOMAIN v.store = DOMAIN refresh_tokens \ {rt}
              /\ validate_refresh_token(v.store, rt, now).detail = "Invalid refresh token"
              /\ r.status = HTTP_401_UNAUTHORIZED
              /\ r.detail = "Refresh token has expired"
              /\ r.access_token = None
              /\ r.store = v.store
              /\ again.status = HTTP_401_UNAUTHORIZED
              /\ again.detail = "Invalid refresh token"
              /\ again.access_token = None

\* C5 case: a refresh token handed to a client was presented after its expiry, was
\* refused as expired and is gone from the store
C5_ExpiredPresented ==
    /\ last.op = "refresh"
    /\ last.status = HTTP_401_UNAUTHORIZED
    /\ last.detail = "Refresh token has expired"
    /\ last.arg \in held
    /\ last.arg \notin DOMAIN refresh_tokens

\* the credentials name no principal of the store, or name one with another password
UnknownUsername(login_request) ==
    \A k \in DOMAIN DB_USERS : DB_USERS[k].username # login_request.username
WrongPassword(login_request) ==
    \E k \in DOMAIN DB_USERS :
        /\ DB_USERS[k].username = login_request.username
        /\ DB_USERS[k].password_hash # Hash(login_request.password)

\* C6: a login with an unknown username and a login with a known username and a
\* wrong password are answered alike, 401 "Invalid username or password"; neither
\* issues an access token nor changes the refresh-token store or the blacklist.
C6_FailedLoginsAlike ==
    [][\A login_request \in LoginRequests :
          (/\ last'.op = "login"
           /\ UnknownUsername(login_request) \/ WrongPassword(login_request)
           /\ Login(login_request))
          => /\ last'.status = HTTP_401_UNAUTHORIZED
             /\ last'.detail = "Invalid username or password"
             /\ AuthorizeCall(login_request).access_token = None
             /\ AuthorizeCall(login_request).refresh_token = None
             /\ UNCHANGED <<issued, held, pairs, refresh_tokens, blacklisted_tokens>>]_vars

\* C6 case: with tokens in both stores, a known username was refused for its password
C6_WrongPasswordRefused ==
    /\ last.op = "login"
    /\ last.status = HTTP_401_UNAUTHORIZED
    /\ WrongPassword(last.arg)
    /\ DOMAIN refresh_tokens # {}
    /\ DOMAIN blacklisted_tokens # {}

\* C7: for every registered (username, password), login returns a pair whose access
\* token decodes to the subject of the principal and carries the roles the principal
\* has at login time.
C7_LoginTokenCarriesSubjectAndRoles ==
    [][\A login_request \in LoginRequests :
          (/\ last'.op = "login"
           /\ LoginUid(login_request) # None
           /\ Login(login_request))
          => LET decoded == jwt_decode(AuthorizeCall(login_request).access_token,
                                       JWT_SECRET_KEY, now)
                 user == Holder(LoginUid(login_request))
             IN /\ last'.status = HTTP_200_OK
                /\ decoded.error = "none"
                /\ decoded.payload.sub = Str(user.uid)
                /\ "roles" \in DOMAIN decoded.payload
                /\ decoded.payload.roles = user.roles]_vars

\* C8: get_current_user of a token create_jwt_token has just produced for a subject
\* returns that subject, and so it does for every token handed out for as long as
\* the token is neither expired nor blacklisted.
C8_IssueResolveRoundTrip ==
    /\ \A n \in 0..3 :
          LET u == UUIDv(n)
              r == get_current_user(blacklisted_tokens,
                                    create_jwt_token(u, now, FreshJti(u, now)), now)
          IN r.status = HTTP_200_OK /\ r.uid = u
    /\ \A tk \in DOMAIN issued :
          (tk \notin DOMAIN blacklisted_tokens /\ now < FromTimestamp(tk.payload.exp))
          => LET r == get_current_user(blacklisted_tokens, tk, now)
             IN r.status = HTTP_200_OK /\ r.uid = issued[tk]

\* C8 case: a token handed out was resolved to the subject it was created for
C8_Resolved ==
    /\ last.op = "get_current_user"
    /\ last.status = HTTP_200_OK
    /\ \E tk \in DOMAIN issued :
          /\ issued[tk] = last.uid
          /\ get_current_user(blacklisted_tokens, tk, now).uid = last.uid

\* who the gate resolves a bearer token to: a principal of the store, or None
Resolved(token) ==
    LET who == get_current_user(blacklisted_tokens, token, now) IN
    IF who.status = HTTP_200_OK /\ Str(who.uid) \in DOMAIN DB_USERS
    THEN Holder(who.uid) ELSE None

\* C9: the role gate runs the wrapped handler if and only if the roles the resolved
\* principal has in the store and the required roles intersect (any of them, not all
\* of them): {user} against {admin} is denied, {admin, user} against {admin} allowed.
C9_GateAllowsAnyOf ==
    /\ ~roles_allowed(<<"user">>, {"admin"})
    /\ roles_allowed(<<"admin", "user">>, {"admin"})
    /\ \A tk \in AccessTokens, rs \in RequiredRoles :
          LET gate == roles(DB_USERS, blacklisted_tokens, rs, tk, now) IN
          /\ gate.invoked <=> gate.status = HTTP_200_OK
          /\ Resolved(tk) # None =>
                (gate.invoked <=> Range(Resolved(tk).roles) \cap rs # {})

\* C9 case: the gate let a principal through that holds one of two required roles,
\* and the store also has a principal it denies
C9_AllowedOnOneRole ==
    /\ last.op = "roles"
    /\ last.invoked
    /\ \E tk \in DOMAIN issued :
          /\ roles(DB_USERS, blacklisted_tokens, {"admin", "auditor"}, tk, now).invoked
          /\ ~({"admin", "auditor"} \subseteq Range(Resolved(tk).roles))
    /\ \E k \in DOMAIN DB_USERS : ~roles_allowed(DB_USERS[k].roles, {"admin"})

\* C10: a principal whose identity is established and who holds none of the
\* required roles is denied with the gate's own condition (405 "Method is not
\* allowed"), which is not the 401 given when no identity can be established, and
\* the handler is not run in either case.
C10_DenialDistinctFromUnauthorized ==
    \A tk \in AccessTokens, rs \in RequiredRoles :
        LET gate == roles(DB_USERS, blacklisted_tokens, rs, tk, now)
            who == get_current_user(blacklisted_tokens, tk, now)
        IN /\ (Resolved(tk) # None /\ Range(Resolved(tk).roles) \cap rs = {})
              => /\ gate.status = HTTP_405_METHOD_NOT_ALLOWED
                 /\ gate.detail = "Method is not allowed"
                 /\ gate.status # HTTP_401_UNAUTHORIZED
                 /\ ~gate.invoked
           /\ who.status # HTTP_200_OK
              => /\ gate.status = HTTP_401_UNAUTHORIZED
                 /\ ~gate.invoked

\* C10 case: the gate has just denied an established principal
C10_Denied ==
    /\ last.op = "roles"
    /\ last.status = HTTP_405_METHOD_NOT_ALLOWED
    /\ ~last.invoked
    /\ \E tk \in DOMAIN issued, rs \in RequiredRoles :
          /\ Resolved(tk) # None
          /\ Range(Resolved(tk).roles) \cap rs = {}

C12_AtMostOneConsumer ==
    ROTATE_REFRESH =>
      \A c1, c2 \in Callers :
          (/\ c1 # c2
           /\ callers[c1].pc = "done"
           /\ callers[c2].pc = "done"
           /\ callers[c1].refresh_token = callers[c2].refresh_token)
          => ~(callers[c1].status = HTTP_200_OK /\ callers[c2].status = HTTP_200_OK)

\* C12 case: both callers have read the same entry before either deleted it, one
\* has got its pair and the other has not
C12_BothObservedOneServed ==
    /\ ROTATE_REFRESH
    /\ callers[1].pc = "done"
    /\ callers[2].pc = "done"
    /\ callers[1].refresh_token = callers[2].refresh_token
    /\ callers[1].token_info # None
    /\ callers[2].token_info # None
    /\ callers[1].new_refresh_token # None
    /\ callers[2].new_refresh_token # None
    /\ callers[1].status = HTTP_200_OK
    /\ callers[2].status # HTTP_200_OK

\* what a purge at clock t may make of a store, given the expiry of each entry:
\* nothing added, everything that expired before t gone, everything that expires
\* after t kept as it was
Partitioned(before, after, expiry, t) ==
    /\ DOMAIN after \subseteq DOMAIN before
    /\ \A k \in DOMAIN before :
          /\ expiry[k] < t => k \notin DOMAIN after
          /\ expiry[k] > t => k \in DOMAIN after /\ after[k] = before[k]

\* C13: after cleanup_expired_blacklisted_tokens and cleanup_expired_refresh_tokens()
\* every entry with an expiry strictly before the current time is gone, every entry
\* with an expiry strictly after it is still there unchanged, and none is added.
C13_PurgePartition ==
    /\ Partitioned(blacklisted_tokens,
                   cleanup_expired_blacklisted_tokens(blacklisted_tokens, now),
                   blacklisted_tokens, now)
    /\ Partitioned(refresh_tokens,
                   cleanup_expired_refresh_tokens(refresh_tokens, now, None),
                   [k \in DOMAIN refresh_tokens |-> refresh_tokens[k].exp], now)

\* C13 case: a cleanup has run over a store that held an expired and a live refresh
\* token; the expired one is gone, the live one is there
C13_PurgedOneKeptOne ==
    /\ last.op = "cleanup_expired_refresh_tokens"
    /\ \E k \in held \ rotated : k[3] < now /\ k \notin DOMAIN refresh_tokens
    /\ \E k \in DOMAIN refresh_tokens : refresh_tokens[k].exp > now

\* C14: create_refresh_token(uid, remember) leaves the token it returns in the store
\* with sub = uid, is_remember_me = remember and exp = now + 30 days when remember
\* and now + 7 days otherwise; every other record that had expired is removed, every
\* unexpired record is kept as it was, and nothing else is added.
C14_CreateRefreshToken ==
    \A n \in 0..2, remember \in BOOLEAN, d \in {0, 1} :
        LET uid == UUIDv(n)
            new == FreshRT(uid, remember, now)
            after == create_refresh_token(refresh_tokens, uid, remember, now, new,
                                          now + d)
        IN /\ new \notin DOMAIN refresh_tokens
           /\ new \in DOMAIN after
           /\ after[new].sub = uid
           /\ after[new].is_remember_me = remember
           /\ remember => after[new].exp = now + Days(REFRESH_EXPIRE_REMEMBER_DAYS)
           /\ ~remember => after[new].exp = now + Days(REFRESH_EXPIRE_DEFAULT_DAYS)
           /\ DOMAIN after \subseteq DOMAIN refresh_tokens \cup {new}
           /\ \A k \in DOMAIN refresh_tokens :
                 /\ refresh_tokens[k].exp < now => k \notin DOMAIN after
                 /\ ~(refresh_tokens[k].exp < now + d)
                       => k \in DOMAIN after /\ after[k] = refresh_tokens[k]

\* C14 case: a login with remember has stored a 30-day token, and the expired token
\* of an earlier login is gone
C14_StoredAndPurged ==
    /\ last.op = "login"
    /\ last.status = HTTP_200_OK
    /\ last.arg.is_remember_me
    /\ \E k \in DOMAIN refresh_tokens :
          /\ refresh_tokens[k].is_remember_me
          /\ refresh_tokens[k].exp = now + Days(REFRESH_EXPIRE_REMEMBER_DAYS)
    /\ \E k \in held \ rotated : k[3] < now /\ k \notin DOMAIN refresh_tokens

\* C15: the access token a successful generate_refresh_token returns carries the
\* subject recorded for the presented refresh token, with and without rotation, and
\* resolves to that subject; the subject recorded for a refresh token is the one it
\* was first stored for, and a rotated token is stored for the same subject.
C15_RefreshKeepsTheSubject ==
    /\ \A k \in DOMAIN refresh_tokens : refresh_tokens[k].sub = UUIDv(k[2])
    /\ \A rt \in RefreshTokens, d \in {0, 1} :
          LET r == RefreshCall(rt, d) IN
          r.status = HTTP_200_OK =>
              /\ rt \in DOMAIN refresh_tokens
              /\ r.access_token.payload.sub = Str(refresh_tokens[rt].sub)
              /\ get_current_user(blacklisted_tokens, r.access_token, now).uid
                    = refresh_tokens[rt].sub
              /\ r.store[r.refresh_token].sub = refresh_tokens[rt].sub

\* C15 case: a rotating refresh has succeeded while the store held refresh tokens
\* of two subjects
C15_RefreshedAmongTwoSubjects ==
    /\ last.op = "refresh"
    /\ last.status = HTTP_200_OK
    /\ ROTATE_REFRESH
    /\ \E tk \in DOMAIN issued : tk.payload.sub = Str(UUIDv(last.arg[2]))
    /\ \E k1, k2 \in DOMAIN refresh_tokens :
          refresh_tokens[k1].sub # refresh_tokens[k2].sub

\* C16: resolving the current user from a validly signed, unexpired, non-blacklisted
\* access token whose subject is not in the principal store fails with Unauthorized:
\* a resolution that succeeds names a stored principal, and the role gate answers
\* such a token with 401, never with another error.
C16_MissingPrincipalUnauthorized ==
    /\ (last.op = "get_current_user" /\ last.status = HTTP_200_OK)
          => Str(last.uid) \in DOMAIN DB_USERS
    /\ last.op = "roles" => last.status # HTTP_404_NOT_FOUND
    /\ \A tk \in DOMAIN issued :
          (/\ decode_jwt_token(blacklisted_tokens, tk, now).status = HTTP_200_OK
           /\ tk.payload.sub \notin DOMAIN DB_USERS
           /\ last.op \in {"get_current_user", "roles"})
          => /\ get_current_user(blacklisted_tokens, tk, now).status
                   = HTTP_401_UNAUTHORIZED
             /\ \A rs \in RequiredRoles :
                   roles(DB_USERS, blacklisted_tokens, rs, tk, now).status
                      = HTTP_401_UNAUTHORIZED

\* C17: for every bearer string that is not a validly signed, unexpired token (no
\* token at all, a forged signature, an expired token) decode_jwt_token and
\* get_current_user end in 401 Unauthorized and resolve no user, and the step leaves
\* the blacklist and the refresh-token store as they were.
C17_InvalidTokenUnauthorized ==
    [][\A tk \in AccessTokens :
          (/\ last'.op = "get_current_user"
           /\ jwt_decode(tk, JWT_SECRET_KEY, now).error # "none"
           /\ GetCurrentUser(tk))
          => /\ decode_jwt_token(blacklisted_tokens, tk, now).status
                   = HTTP_401_UNAUTHORIZED
             /\ last'.status = HTTP_401_UNAUTHORIZED
             /\ last'.uid = None
             /\ blacklisted_tokens' = blacklisted_tokens
             /\ refresh_tokens' = refresh_tokens]_vars

\* C17 case: an expired access token has been presented and refused
C17_ExpiredRefused ==
    /\ last.op = "get_current_user"
    /\ last.status = HTTP_401_UNAUTHORIZED
    /\ last.detail = "Token has expired"
    /\ \E tk \in DOMAIN issued :
          jwt_decode(tk, JWT_SECRET_KEY, now).error = "ExpiredSignatureError"

\* C18: get_object returns an object only to its owner: an unknown id gives 404, an
\* object stored for another user name gives 400 and no fields, the owner gets
\* field1 and field2; OBJECTS is the same after the call in all three cases.
C18_OnlyTheOwnerReads ==
    \A object_id \in ObjectIds, user_name \in Usernames :
        LET r == get_object(OBJECTS, object_id, user_name) IN
        /\ r.objects = OBJECTS
        /\ object_id \notin DOMAIN OBJECTS
              => r.status = HTTP_404_NOT_FOUND /\ r.body = None
        /\ (object_id \in DOMAIN OBJECTS /\ OBJECTS[object_id].username # user_name)
              => r.status = HTTP_400_BAD_REQUEST /\ r.body = None
        /\ (object_id \in DOMAIN OBJECTS /\ OBJECTS[object_id].username = user_name)
              => /\ r.status = HTTP_200_OK
                 /\ r.body = [field1 |-> OBJECTS[object_id].field1,
                              field2 |-> OBJECTS[object_id].field2]

\* C18 case: a caller has asked for an object stored for another user and got 400
C18_StrangerRefused ==
    /\ last.op = "get_object"
    /\ last.status = HTTP_400_BAD_REQUEST
    /\ last.body = None
    /\ \E k \in DOMAIN OBJECTS : OBJECTS[k].username = "kek"

\* C19: every successful create_object adds exactly one object, owned by the
\* authenticated user, under a key that was free, and leaves every stored object as
\* it was; the keys in use are always 1 .. len(OBJECTS).
C19_CreateNeverOverwrites ==
    /\ DOMAIN OBJECTS = 1 .. Cardinality(DOMAIN OBJECTS)
    /\ \A object_model \in ObjectModels, user_name \in Usernames :
          LET r == create_object(OBJECTS, object_model, user_name)
              added == DOMAIN r.objects \ DOMAIN OBJECTS
          IN /\ r.status = HTTP_200_OK
             /\ Cardinality(DOMAIN r.objects) = Cardinality(DOMAIN OBJECTS) + 1
             /\ Cardinality(added) = 1
             /\ \A k \in added :
                   r.objects[k] = [field1 |-> object_model.field1,
                                   field2 |-> object_model.field2,
                                   username |-> user_name]
             /\ \A k \in DOMAIN OBJECTS :
                   k \in DOMAIN r.objects /\ r.objects[k] = OBJECTS[k]

\* C19 case: a create_object has succeeded on a store that already held an object of
\* another user
C19_CreatedBesideAnother ==
    /\ last.op = "create_object"
    /\ last.status = HTTP_200_OK
    /\ Cardinality(DOMAIN OBJECTS) >= 2
    /\ \E k1, k2 \in DOMAIN OBJECTS : OBJECTS[k1].username # OBJECTS[k2].username

\* the stored users with a given GitHub id
StoredFor(github_id) ==
    {u \in DOMAIN oauth_users : oauth_users[u].github_id = github_id}

\* C20: create_or_update_oauth_user called for a GitHub id that has a stored user
\* updates that user's display name, email, avatar and profile URL in place and
\* returns it with its username and github_id unchanged; no user record and no
\* id-to-username mapping is added, and the other users stay as they were.
C20_UpdateInPlace ==
    \A github_user_data \in GithubUserData :
        LET stored == StoredFor(github_user_data.id)
            r == create_or_update_oauth_user(oauth_users, github_id_to_username,
                                             github_user_data, now)
        IN stored # {} =>
             /\ Cardinality(stored) = 1
             /\ \A u \in stored :
                   /\ r.user.username = u
                   /\ r.user.github_id = github_user_data.id
                   /\ r.user.created_at = oauth_users[u].created_at
                   /\ r.user.display_name = github_user_data.name
                   /\ r.user.email = github_user_data.email
                   /\ r.user.avatar_url = github_user_data.avatar_url
                   /\ r.user.profile_url = github_user_data.html_url
                   /\ r.users[u] = r.user
             /\ DOMAIN r.users = DOMAIN oauth_users
             /\ \A u \in DOMAIN oauth_users \ stored : r.users[u] = oauth_users[u]
             /\ r.ids = github_id_to_username

\* C20 case: a stored user has logged in again after a change of login and of
\* profile, and was updated in place under the old username
C20_UpdatedUnderOldUsername ==
    /\ last.op = "create_or_update_oauth_user"
    /\ last.user.username # last.arg.login
    /\ last.user.github_id = last.arg.id
    /\ last.user.display_name = last.arg.name
    /\ last.user.display_name # <<"name", 1>>
    /\ DOMAIN oauth_users = {last.user.username}
    /\ DOMAIN github_id_to_username = {last.arg.id}

\* C21: validate_refresh_token treats a refresh token as expired whenever
\* now >= its recorded expiry: a call at the instant now = expiry fails with
\* "Refresh token has expired" and deletes the entry.
C21_ExpiredAtTheBoundary ==
    \A rt \in DOMAIN refresh_tokens :
        refresh_tokens[rt].exp <= now =>
            LET v == validate_refresh_token(refresh_tokens, rt, now) IN
            /\ v.status = HTTP_401_UNAUTHORIZED
            /\ v.detail = "Refresh token has expired"
            /\ rt \notin DOMAIN v.store

\* C22: cleanup_expired_blacklisted_tokens removes every entry whose recorded expiry
\* is less than or equal to the current time: an entry whose expiry equals now is
\* removed.
C22_PurgedAtTheBoundary ==
    \A tk \in DOMAIN blacklisted_tokens :
        blacklisted_tokens[tk] <= now =>
            tk \notin DOMAIN cleanup_expired_blacklisted_tokens(blacklisted_tokens, now)

\* C23: validate_refresh_token changes the refresh-token store only in the expired
\* case: on success it returns the stored record and leaves the store as it was, so
\* that the token validates again; for a token that is not stored it answers 401
\* "Invalid refresh token" and leaves the store as it was.
C23_ValidateWritesOnlyOnExpiry ==
    \A rt \in RefreshTokens :
        LET v == validate_refresh_token(refresh_tokens, rt, now) IN
        /\ v.store # refresh_tokens => v.detail = "Refresh token has expired"
        /\ v.status = HTTP_200_OK =>
              /\ v.info = refresh_tokens[rt]
              /\ v.store = refresh_tokens
              /\ validate_refresh_token(v.store, rt, now).status = HTTP_200_OK
        /\ rt \notin DOMAIN refresh_tokens =>
              /\ v.status = HTTP_401_UNAUTHORIZED
              /\ v.detail = "Invalid refresh token"
              /\ v.store = refresh_tokens

\* C23 case: a string that is no stored token was presented while the store held an
\* expired and an unexpired record, and was refused as invalid
C23_UnknownRefusedStoreKept ==
    /\ last.op = "refresh"
    /\ last.status = HTTP_401_UNAUTHORIZED
    /\ last.detail = "Invalid refresh token"
    /\ last.arg \notin held
    /\ \E k \in DOMAIN refresh_tokens : refresh_tokens[k].exp < now
    /\ \E k \in DOMAIN refresh_tokens : ~(refresh_tokens[k].exp < now)

\* C24: revoke_refresh_token is total and idempotent: it returns normally whether or
\* not the token is stored, removes the token if it is stored, leaves every other
\* refresh record and the blacklist as they were, and a second call with the same
\* token returns normally and changes nothing.
C24_RevokeTotalAndIdempotent ==
    [][\A rt \in RefreshTokens :
          (last'.op = "revoke_refresh_token" /\ Revoke(rt)) =>
             LET second == revoke_refresh_token(refresh_tokens', rt) IN
             /\ last'.status = HTTP_200_OK
             /\ DOMAIN refresh_tokens' = DOMAIN refresh_tokens \ {rt}
             /\ \A k \in DOMAIN refresh_tokens' : refresh_tokens'[k] = refresh_tokens[k]
             /\ blacklisted_tokens' = blacklisted_tokens
             /\ second.status = HTTP_200_OK
             /\ second.store = refresh_tokens']_vars

\* C24 case: a refresh token handed to a client has been revoked, beside another
\* stored refresh token and a blacklisted access token
C24_RevokedBesideOthers ==
    /\ last.op = "revoke_refresh_token"
    /\ last.status = HTTP_200_OK
    /\ last.arg \in held
    /\ last.arg \notin DOMAIN refresh_tokens
    /\ DOMAIN refresh_tokens # {}
    /\ DOMAIN blacklisted_tokens # {}

\* C25: a successful generate_refresh_token, with or without rotation, leaves every
\* other refresh token that is unexpired when the call ends in the store with its
\* record as it was, the other tokens of the same subject included; with rotation
\* the only unexpired entry it removes is the one presented, and without rotation it
\* removes none.
C25_RefreshLeavesOthersAlone ==
    \A rt \in DOMAIN refresh_tokens, d \in {0, 1} :
        LET r == RefreshCall(rt, d)
            unexpired == {k \in DOMAIN refresh_tokens :
                             ~(refresh_tokens[k].exp < now + d)}
        IN r.status = HTTP_200_OK =>
             /\ \A k \in unexpired \ {rt} :
                   k \in DOMAIN r.store /\ r.store[k] = refresh_tokens[k]
             /\ ROTATE_REFRESH => unexpired \ DOMAIN r.store \subseteq {rt}
             /\ ~ROTATE_REFRESH => r.store = refresh_tokens

\* C25 case: a rotating refresh has consumed one of two refresh tokens of the same
\* subject and the other one is still stored
C25_SiblingSurvivedRotation ==
    /\ ROTATE_REFRESH
    /\ last.op = "refresh"
    /\ last.status = HTTP_200_OK
    /\ last.arg \notin DOMAIN refresh_tokens
    /\ \E k \in DOMAIN refresh_tokens :
          /\ k \in {p.refresh_token : p \in pairs}
          /\ k # last.arg
          /\ refresh_tokens[k].sub = UUIDv(last.arg[2])

\* the token verifies at the current clock reading: valid signature, not expired
Verifies(tk) == jwt_decode(tk, JWT_SECRET_KEY, now).error = "none"

\* C26: blacklist_token leaves the token in the blacklist, mapped to the expiry of
\* its exp claim, exactly when the token verifies; a token that fails verification
\* is never added, and the entry of an already blacklisted token is left as it was.
C26_RecordedIffVerified ==
    [][\A tk \in AccessTokens, d \in LogoutDelays :
          (last'.op = "logout" /\ Logout(tk, d)) =>
             /\ Verifies(tk) =>
                   /\ tk \in DOMAIN blacklisted_tokens'
                   /\ blacklisted_tokens'[tk] = FromTimestamp(tk.payload.exp)
             /\ ~Verifies(tk) =>
                   (tk \in DOMAIN blacklisted_tokens' <=> tk \in DOMAIN blacklisted_tokens)
             /\ tk \in DOMAIN blacklisted_tokens =>
                   /\ tk \in DOMAIN blacklisted_tokens'
                   /\ blacklisted_tokens'[tk] = blacklisted_tokens[tk]]_vars

\* C26 as amended: the same, except that a token whose expiry has passed when the
\* cleanup at the end of the call reads the clock has no entry after the call.
C26_RecordedIffVerifiedAndUnexpired ==
    [][\A tk \in AccessTokens, d \in LogoutDelays :
          (last'.op = "logout" /\ Logout(tk, d)) =>
             /\ (Verifies(tk) /\ ~(FromTimestamp(tk.payload.exp) < now')) =>
                   /\ tk \in DOMAIN blacklisted_tokens'
                   /\ blacklisted_tokens'[tk] = FromTimestamp(tk.payload.exp)
             /\ (Verifies(tk) /\ FromTimestamp(tk.payload.exp) < now') =>
                   tk \notin DOMAIN blacklisted_tokens'
             /\ ~Verifies(tk) =>
                   /\ blacklisted_tokens' = blacklisted_tokens
                   /\ tk \in DOMAIN blacklisted_tokens' <=> tk \in DOMAIN blacklisted_tokens
             /\ (tk \in DOMAIN blacklisted_tokens /\ tk \in DOMAIN blacklisted_tokens') =>
                   blacklisted_tokens'[tk] = blacklisted_tokens[tk]]_vars

\* C26 case: a logout has recorded a valid token while a forged copy of a token was
\* there to be presented and is in no entry
C26_ValidRecordedForgedNot ==
    /\ last.op = "logout"
    /\ \E tk \in revoked :
          /\ tk \in DOMAIN blacklisted_tokens
          /\ blacklisted_tokens[tk] = FromTimestamp(tk.payload.exp)
          /\ Verifies(tk)
    /\ Forged # {}
    /\ Forged \cap DOMAIN blacklisted_tokens = {}

\* C27: immediately after a blacklist_token call that inserted an entry, the
\* blacklist holds no entry whose recorded expiry is earlier than the time of the
\* call, and it still holds the entry just inserted.
C27_PurgedAndInsertedKept ==
    [][\A tk \in AccessTokens, d \in LogoutDelays :
          (last'.op = "logout" /\ Logout(tk, d) /\ LogoutCall(tk, d).recorded) =>
             /\ \A k \in DOMAIN blacklisted_tokens' : ~(blacklisted_tokens'[k] < now)
             /\ tk \in DOMAIN blacklisted_tokens']_vars

\* C27 as amended: after such a call the blacklist holds no entry whose recorded
\* expiry is earlier than the clock reading of its cleanup (hence none earlier than
\* the time the token was verified), and it holds the entry just inserted unless the
\* expiry of that token has passed at that reading.
C27_PurgedAndUnexpiredInsertedKept ==
    [][\A tk \in AccessTokens, d \in LogoutDelays :
          (last'.op = "logout" /\ Logout(tk, d) /\ LogoutCall(tk, d).recorded) =>
             /\ \A k \in DOMAIN blacklisted_tokens' : ~(blacklisted_tokens'[k] < now')
             /\ \A k \in DOMAIN blacklisted_tokens' : ~(blacklisted_tokens'[k] < now)
             /\ ~(FromTimestamp(tk.payload.exp) < now') =>
                   tk \in DOMAIN blacklisted_tokens']_vars

\* C27 case: a logout has inserted an entry and its cleanup has purged the entry of
\* a token recorded earlier
C27_OlderEntryPurged ==
    /\ last.op = "logout"
    /\ \E old, new \in revoked :
          /\ old \notin DOMAIN blacklisted_tokens
          /\ new \in DOMAIN blacklisted_tokens
          /\ FromTimestamp(old.payload.exp) < now
          /\ ~(blacklisted_tokens[new] < now)

\* C30: logout is subject-wide for refresh tokens: after blacklist_token on a valid
\* access token of subject s the refresh-token store holds no record whose sub is s,
\* and the refresh tokens of every other subject that are unexpired when the cleanup
\* reads the clock are in the store with their records as they were.
C30_LogoutDropsAllSessions ==
    \A tk \in DOMAIN issued, d \in LogoutDelays :
        Verifies(tk) =>
            LET r == LogoutCall(tk, d) IN
            /\ \A k \in DOMAIN r.store : Str(r.store[k].sub) # tk.payload.sub
            /\ \A k \in DOMAIN refresh_tokens :
                  (/\ Str(refresh_tokens[k].sub) # tk.payload.sub
                   /\ ~(refresh_tokens[k].exp < now + d))
                  => k \in DOMAIN r.store /\ r.store[k] = refresh_tokens[k]

\* C30 case: a logout has removed the refresh tokens of two logins of its subject
\* and has left the refresh token of another subject in the store
C30_TwoSessionsDropped ==
    /\ last.op = "logout"
    /\ \E tk \in revoked :
          /\ tk \in DOMAIN blacklisted_tokens
          /\ \E k1, k2 \in held :
                /\ k1 # k2
                /\ Str(UUIDv(k1[2])) = tk.payload.sub
                /\ Str(UUIDv(k2[2])) = tk.payload.sub
                /\ k1 \notin DOMAIN refresh_tokens
                /\ k2 \notin DOMAIN refresh_tokens
          /\ \E k \in DOMAIN refresh_tokens : Str(refresh_tokens[k].sub) # tk.payload.sub

\* C28: the cleanups of the blacklist and of the refresh-token store never raise,
\* also when several callers run them over the same maps at once: every cleanup
\* that has ended has returned normally.
C28_CleanupNeverRaises ==
    \A c \in Callers : callers[c].pc = "done" => callers[c].status = HTTP_200_OK

\* C29: when a logout for subject s and a refresh with one of the refresh tokens of
\* s have both finished, however their statements interleaved, the refresh-token
\* store holds no refresh token of s that was already stored when the logout
\* finished.
C29_NoSessionSurvivesLogout ==
    \A l, r \in Callers :
        (/\ callers[l].pc = "done"
         /\ callers[r].pc = "done"
         /\ "token" \in DOMAIN callers[l]
         /\ "refresh_token" \in DOMAIN callers[r]
         /\ callers[l].sub # None
         /\ callers[r].token_info # None
         /\ Str(callers[r].token_info.sub) = callers[l].sub)
        => \A k \in DOMAIN refresh_tokens \cap callers[l].final :
               Str(refresh_tokens[k].sub) # callers[l].sub

\* C31: blacklist_token called with a token that fails verification (forged
\* signature, no token at all, or already expired) changes nothing: the blacklist
\* and the refresh-token store are as before, and every stored refresh token is
\* validated afterwards as it was before.
C31_InvalidLogoutChangesNothing ==
    \A tk \in AccessTokens :
        ~Verifies(tk) =>
            LET r == LogoutCall(tk, 0) IN
            /\ r.blacklist = blacklisted_tokens
            /\ r.store = refresh_tokens
            /\ ~r.recorded
            /\ \A k \in DOMAIN refresh_tokens :
                  validate_refresh_token(r.store, k, now)
                      = validate_refresh_token(refresh_tokens, k, now)

\* C31 case: a logout has been answered without any token ever recorded, at a time
\* when an access token handed out has expired and a refresh token of its subject
\* is stored and still accepted
C31_ExpiredLogoutSessionKept ==
    /\ last.op = "logout"
    /\ revoked = {}
    /\ \E tk \in DOMAIN issued :
          /\ jwt_decode(tk, JWT_SECRET_KEY, now).error = "ExpiredSignatureError"
          /\ \E k \in DOMAIN refresh_tokens :
                /\ Str(refresh_tokens[k].sub) = tk.payload.sub
                /\ validate_refresh_token(refresh_tokens, k, now).status = HTTP_200_OK

\* C32: with ROTATE_REFRESH enabled, a generate_refresh_token call whose input token
\* was accepted by validate_refresh_token ends successfully with the input token
\* removed from the store, however far the clock advances between the validation
\* and the cleanup inside create_refresh_token; it never ends in an unhandled error.
C32_AcceptedRefreshCompletes ==
    (/\ ROTATE_REFRESH
     /\ last.op = "refresh"
     /\ last.status # HTTP_401_UNAUTHORIZED)
    => /\ last.status = HTTP_200_OK
       /\ last.arg \notin DOMAIN refresh_tokens

\* C33: with ROTATE_REFRESH enabled, the refresh token a successful
\* generate_refresh_token stores belongs to the subject of the consumed token,
\* carries its is_remember_me flag and expires a full lifetime (the TTL selected by
\* that flag) after the time of the refresh.  If the refresh happens after the time
\* the consumed token was issued, the new token is still accepted, and rotated
\* again, at an instant at which the consumed token would have been refused as
\* expired.
C33_RotationRenewsTheLifetime ==
    \A rt \in DOMAIN refresh_tokens, d \in Delays :
        LET old == refresh_tokens[rt]
            r == RefreshCall(rt, d)
        IN (ROTATE_REFRESH /\ r.status = HTTP_200_OK) =>
              LET new == r.refresh_token
                  later == old.exp + 1
                  again == generate_refresh_token(
                               r.store, new, TRUE, later, 0, 1,
                               RT(old.sub, later + RefreshTTL(old.is_remember_me), 1))
              IN /\ new \in DOMAIN r.store
                 /\ r.store[new].sub = old.sub
                 /\ r.store[new].is_remember_me = old.is_remember_me
                 /\ r.store[new].exp = now + RefreshTTL(old.is_remember_me)
                 /\ (now + RefreshTTL(old.is_remember_me) > old.exp) =>
                       /\ validate_refresh_token(refresh_tokens, rt, later).status
                              = HTTP_401_UNAUTHORIZED
                       /\ again.status = HTTP_200_OK
                       /\ again.refresh_token \in DOMAIN again.store
                       /\ again.store[again.refresh_token].exp
                              = later + RefreshTTL(old.is_remember_me)

\* C33 case: a rotation has consumed a remember-me refresh token and the token stored
\* in its place, for the same subject and with the flag set, expires later than the
\* consumed one
C33_RotatedPastTheOriginal ==
    /\ ROTATE_REFRESH
    /\ last.op = "refresh"
    /\ last.status = HTTP_200_OK
    /\ last.arg \in rotated
    /\ last.arg \notin DOMAIN refresh_tokens
    /\ \E k \in DOMAIN refresh_tokens :
          /\ k \notin {p.refresh_token : p \in pairs}
          /\ refresh_tokens[k].sub = UUIDv(last.arg[2])
          /\ refresh_tokens[k].is_remember_me
          /\ refresh_tokens[k].exp > last.arg[3]

\* C34: registration keeps usernames unique: create_user with a username that is
\* already stored answers 409 and leaves DB_USERS as it was; after any sequence of
\* create_user calls no two stored users have the same username and every user is
\* stored under the key str(user.uid).
C34_UsernamesUnique ==
    /\ \A payload \in Registrations :
          (\E k \in DOMAIN DB_USERS : DB_USERS[k].username = payload.username) =>
              LET r == create_user(DB_USERS, payload,
                                   generate_user_uid(DB_USERS, Uuid4Draws(DB_USERS)))
              IN r.status = HTTP_409_CONFLICT /\ r.users = DB_USERS
    /\ \A k1, k2 \in DOMAIN DB_USERS :
          DB_USERS[k1].username = DB_USERS[k2].username => k1 = k2
    /\ \A k \in DOMAIN DB_USERS : k = Str(DB_USERS[k].uid)

\* C34 case: with two users stored, a registration under a stored username but with
\* another password has been answered 409
C34_TakenUsernameRefused ==
    /\ last.op = "create_user"
    /\ last.status = HTTP_409_CONFLICT
    /\ Cardinality(DOMAIN DB_USERS) >= 2
    /\ \E k \in DOMAIN DB_USERS :
          /\ DB_USERS[k].username = last.arg.username
          /\ DB_USERS[k].password_hash # Hash(last.arg.password)

\* C35: the OAuth user index is consistent: after any sequence of
\* create_or_update_oauth_user and delete_oauth_user calls, for every GitHub id g
\* get_oauth_user_by_github_id(g) returns None or a user whose github_id is g;
\* delete_oauth_user(name) returns True and removes the user and its id mapping when
\* the user is stored, and returns False and changes nothing when it is not.
C35_OAuthIndexConsistent ==
    /\ \A g \in {d.id : d \in GithubUserData} :
          LET user == get_oauth_user_by_github_id(oauth_users, github_id_to_username, g)
          IN user = None \/ user.github_id = g
    /\ \A username \in {d.login : d \in GithubUserData} :
          LET r == delete_oauth_user(oauth_users, github_id_to_username, username)
          IN IF username \in DOMAIN oauth_users
             THEN /\ r.deleted
                  /\ username \notin DOMAIN r.users
                  /\ oauth_users[username].github_id \notin DOMAIN r.ids
             ELSE /\ ~r.deleted
                  /\ r.users = oauth_users
                  /\ r.ids = github_id_to_username

\* the rows of every table but (table, key) are in the second database as they are
\* in the first
OthersKept(data, after, table, key) ==
    /\ \A t \in DOMAIN data \ {table} : t \in DOMAIN after /\ after[t] = data[t]
    /\ DOMAIN after \subseteq DOMAIN data \cup {table}
    /\ \A k \in DOMAIN db_get_all(data, table) \ {key} :
          db_exists(after, table, k) /\ db_get(after, table, k) = data[table][k]
    /\ \A k \in DOMAIN db_get_all(after, table) \ {key} : db_exists(data, table, k)

\* C38: LocalDatabase is a set of independent key-value tables: after set(t, k, v),
\* get(t, k) returns v and exists(t, k) is true, and stays so over every operation
\* that is not a delete of (t, k) or a clear; delete(t, k) returns True exactly when
\* (t, k) existed, and afterwards exists(t, k) is false; set and delete leave every
\* other table and every other key as they were; clear() leaves exactly the empty
\* tables users, sessions and blacklist.
C38_IndependentTables ==
    [][/\ last'.op = "set" =>
             /\ db_get(db', last'.table, last'.key) = last'.value
             /\ db_exists(db', last'.table, last'.key)
             /\ OthersKept(db, db', last'.table, last'.key)
       /\ last'.op = "delete" =>
             /\ last'.deleted = db_exists(db, last'.table, last'.key)
             /\ ~db_exists(db', last'.table, last'.key)
             /\ OthersKept(db, db', last'.table, last'.key)
       /\ last'.op = "clear" =>
             /\ DOMAIN db' = {"users", "sessions", "blacklist"}
             /\ \A t \in DOMAIN db' : DOMAIN db'[t] = {}]_vars

\* C38 case: a record of a table the constructor did not create has been deleted
\* while two other tables and the other key of its table hold records
C38_DeletedBesideOthers ==
    /\ last.op = "delete"
    /\ last.deleted
    /\ last.table = "cache"
    /\ ~db_exists(db, "cache", last.key)
    /\ DOMAIN db["cache"] # {}
    /\ DOMAIN db["users"] # {}
    /\ DOMAIN db["blacklist"] = Keys

\* C36: get_current_user_keycloak fails closed: it ends in a returned username or in
\* a 401; a username is returned only when Keycloak accepted the token, the userinfo
\* carries a preferred_username (the one returned) and the token is not in the
\* blacklist table; a blacklisted token gets 401 whatever Keycloak answers, and an
\* unexpected exception inside the check gets 401 and no username.
C36_KeycloakFailsClosed ==
    \A token \in KeycloakTokens, response \in KeycloakResponses :
        LET r == get_current_user_keycloak(db, token, response, now) IN
        /\ r.status \in {HTTP_200_OK, HTTP_401_UNAUTHORIZED}
        /\ r.status = HTTP_401_UNAUTHORIZED <=> r.username = ""
        /\ r.status = HTTP_200_OK =>
              /\ ~response.raises
              /\ response.userinfo.preferred_username # ""
              /\ r.username = response.userinfo.preferred_username
              /\ ~db_exists(db, "blacklist", token)
        /\ db_exists(db, "blacklist", token) => r.status = HTTP_401_UNAUTHORIZED
        /\ r.detail = "Authentication failed" => r.status = HTTP_401_UNAUTHORIZED

\* C36 case: a token in the blacklist table, for which Keycloak returned a userinfo
\* with a preferred_username, has been rejected as revoked
C36_RevokedThoughAccepted ==
    /\ last.op = "get_current_user_keycloak"
    /\ last.status = HTTP_401_UNAUTHORIZED
    /\ last.detail = "Token has been revoked"
    /\ ~last.response.raises
    /\ last.response.userinfo.preferred_username = "alice"
    /\ db_exists(db, "blacklist", last.token)

\* C37: get_current_user_keycloak writes to the local database only on requests it
\* accepts: a request rejected with 401, one rejected for a blacklisted token
\* included, leaves every table unchanged, and a user record that exists is never
\* overwritten by a later authentication.
C37_RejectedWritesNothing ==
    \A token \in KeycloakTokens, response \in KeycloakResponses :
        LET r == get_current_user_keycloak(db, token, response, now) IN
        /\ r.status = HTTP_401_UNAUTHORIZED => r.data = db
        /\ \A u \in DOMAIN db.users :
              db_exists(r.data, "users", u) /\ db_get(r.data, "users", u) = db.users[u]

====
